---- MODULE Spec2Model ----
(***************************************************************************)
(* EscrowContract (smart-contract/contracts/EscrowContract.sol) as a state *)
(* machine.  Every external function of the contract is an operator that   *)
(* maps the chain state and the call's inputs to a call result             *)
(* [ok, st, ret]: ok = FALSE is a revert (st is then the state before the  *)
(* call, as the EVM rolls a reverted call back as a whole).  The actions   *)
(* apply these operators to the current state.                             *)
(***************************************************************************)
EXTENDS Integers, Sequences, FiniteSets, TLC

VARIABLES owner, oracle, escrowCounter, escrows, verifications, userEscrows,
          balance, now, creations, issued, passed, adminCompleted

chainVars == <<owner, oracle, escrowCounter, escrows, verifications, userEscrows, balance, now>>
\* for each escrow id, what fundEscrow has received for it less what the
\* contract has paid out for it
VARIABLE held
ghostVars == <<creations, issued, passed, adminCompleted, held>>

\* the backend service (oracle/src): its database, its clock, and the last
\* contract function the status endpoint invoked
VARIABLES users, sessions, nextToken, clock, lastCall

serviceVars == <<users, sessions, nextToken, clock, lastCall>>

\* the sensor services of the oracle: the delivery objects of the simulations
\* and their timers, the maps of DummyIoTService, the map of IoTService
VARIABLES deliveries, intervals, activeDeliveries, simulationIntervals, mockData

iotVars == <<deliveries, intervals, activeDeliveries, simulationIntervals, mockData>>

\* the reading the verification pipeline fetched last and its validation
VARIABLES fetchedData, validationResult

validatorVars == <<fetchedData, validationResult>>

\* POST /register in steps: the requests that have passed the handler's checks
\* and wait for User.create, and the answers of those that have returned from it
VARIABLES pending, answered

registerVars == <<pending, answered>>

vars == <<owner, oracle, escrowCounter, escrows, verifications, userEscrows,
          balance, now, creations, issued, passed, adminCompleted, held,
          users, sessions, nextToken, clock, lastCall,
          deliveries, intervals, activeDeliveries, simulationIntervals, mockData,
          fetchedData, validationResult,
          pending, answered>>

-----------------------------------------------------------------------------
(* Bounds of the model *)

\* largest escrowCounter
MaxEscrows == 1
\* total number of successful createEscrow calls in a behaviour
MaxCreates == 2
\* largest block.timestamp
MaxTime == 2
\* largest price a seller proposes
MaxAmount == 2
\* seconds in a day of the service's clock
DayLen == 2
\* last day the service's clock reaches
MaxDay == 2
\* largest number of session tokens issued in a behaviour
MaxTokens == 2
\* largest number of rows of the users table
MaxUsers == 4
\* largest escrowCounter where several escrows share the contract's balance
MaxPoolEscrows == 2
\* largest number of delivery simulations started in a behaviour
MaxStarts == 2
\* largest number of times one simulation's timer fires
MaxTicks == 31

-----------------------------------------------------------------------------
(* enum EscrowStatus *)

Created == 0
PriceProposed == 1
PriceRejected == 2
Funded == 3
InTransit == 4
Delivered == 5
Completed == 6
Refunded == 7
Disputed == 8

EscrowStatus == Created .. Disputed

-----------------------------------------------------------------------------
(* Accounts *)

Owner == "owner"
Oracle == "oracle"
Buyer == "buyer"
Seller == "seller"
Stranger == "stranger"
\* address(0)
Zero == "0x0"
\* address(this)
This == "contract"

\* the externally owned accounts that send transactions
Users == {Owner, Oracle, Buyer, Seller, Stranger}
Accounts == Users \cup {Zero, This}

\* what every user owns at deployment
InitialBalance == MaxAmount + 1

-----------------------------------------------------------------------------
(* Inputs the actions draw from *)

IdInputs == 0 .. MaxEscrows
AmountInputs == 0 .. MaxAmount
ValueInputs == 0 .. MaxAmount + 1
OracleInputs == {Zero, Oracle, Stranger}
ClearInputs == {Stranger}
\* the destination of the repository's tests, and the ranges they use
DestinationGPS == "-6.2088,106.8456"
MinBound == 0
MaxBound == 3000
\* a well-formed createEscrow call
\* <<sender, seller, gps, minT, maxT, minH, maxH, minP, maxP, deadline - now>>
GoodCreate == <<Buyer, Seller, DestinationGPS, MinBound, MaxBound, MinBound, MaxBound, MinBound, MaxBound, 1>>
\* the well-formed calls, and the calls that break one precondition each
CreateInputs ==
  { GoodCreate,
    [GoodCreate EXCEPT ![2] = Zero],
    [GoodCreate EXCEPT ![2] = Buyer],
    [GoodCreate EXCEPT ![3] = ""],
    [GoodCreate EXCEPT ![4] = MaxBound],
    [GoodCreate EXCEPT ![6] = MaxBound],
    [GoodCreate EXCEPT ![8] = MaxBound],
    [GoodCreate EXCEPT ![10] = 0] }
\* the sensor reading an oracle submits
ReadingGPS == "-6.2088,106.8456"
ReadingValue == 2500
\* (gpsMatched, temperatureValid, humidityValid, pressureValid)
AllChecks == BOOLEAN \X BOOLEAN \X BOOLEAN \X BOOLEAN
\* as submitted by the actions: all true, and a reading away from the destination
CheckInputs == {<<TRUE, TRUE, TRUE, TRUE>>, <<FALSE, TRUE, TRUE, TRUE>>}

-----------------------------------------------------------------------------
(* Storage *)

\* the value a mapping(uint256 => Escrow) holds at a key never written
ZeroEscrow ==
  [id |-> 0, buyer |-> Zero, seller |-> Zero, amount |-> 0, destinationGPS |-> "",
   minTemperature |-> 0, maxTemperature |-> 0, minHumidity |-> 0, maxHumidity |-> 0,
   minPressure |-> 0, maxPressure |-> 0, deadline |-> 0, status |-> Created,
   verified |-> FALSE, createdAt |-> 0, verifiedAt |-> 0]

\* the value a mapping(uint256 => VerificationData) holds at a key never written
ZeroVerification ==
  [currentGPS |-> "", temperature |-> 0, humidity |-> 0, pressure |-> 0,
   timestamp |-> 0, gpsMatched |-> FALSE, temperatureValid |-> FALSE,
   humidityValid |-> FALSE, pressureValid |-> FALSE]

\* the chain state a call reads and writes
Chain ==
  [owner |-> owner, oracle |-> oracle, escrowCounter |-> escrowCounter,
   escrows |-> escrows, verifications |-> verifications,
   userEscrows |-> userEscrows, balance |-> balance, now |-> now]

\* escrows[_escrowId]
escrowAt(s, id) == IF id \in DOMAIN s.escrows THEN s.escrows[id] ELSE ZeroEscrow

\* verifications[_escrowId]
verificationAt(s, id) ==
  IF id \in DOMAIN s.verifications THEN s.verifications[id] ELSE ZeroVerification

\* a write to a mapping
Store(m, k, v) == [x \in DOMAIN m \cup {k} |-> IF x = k THEN v ELSE m[x]]

Revert(s) == [ok |-> FALSE, st |-> s, ret |-> 0]
Return(s, v) == [ok |-> TRUE, st |-> s, ret |-> v]

\* payable(to).call{value: amount}(""): the success flag
CanSend(s, to, amount) == s.balance[This] >= amount

\* payable(to).call{value: amount}(""): the balances after it
Send(s, to, amount) ==
  [s EXCEPT !.balance = [a \in DOMAIN s.balance |->
      IF a = to /\ a = This THEN s.balance[a]
      ELSE IF a = This THEN s.balance[a] - amount
      ELSE IF a = to THEN s.balance[a] + amount
      ELSE s.balance[a]]]

-----------------------------------------------------------------------------
(* Modifiers *)

onlyOwner(s, sender) == sender = s.owner
onlyOracle(s, sender) == sender = s.oracle
onlyBuyer(s, sender, id) == escrowAt(s, id).buyer = sender
onlySeller(s, sender, id) == escrowAt(s, id).seller = sender
escrowExists(s, id) == id > 0 /\ id <= s.escrowCounter
inStatus(s, id, status) == escrowAt(s, id).status = status

-----------------------------------------------------------------------------
(* External functions: chain state and inputs to call result *)

\* createEscrow accepting a deadline equal to the current block time
createEscrow_DeadlineNow(s, sender, seller, gps, minT, maxT, minH, maxH, minP, maxP, deadline) ==
  IF /\ seller # Zero
     /\ seller # sender
     /\ deadline >= s.now
     /\ minT < maxT
     /\ minH < maxH
     /\ minP < maxP
     /\ Len(gps) > 0
  THEN LET escrowId == s.escrowCounter + 1
           escrow == [id |-> escrowId, buyer |-> sender, seller |-> seller,
                      amount |-> 0, destinationGPS |-> gps,
                      minTemperature |-> minT, maxTemperature |-> maxT,
                      minHumidity |-> minH, maxHumidity |-> maxH,
                      minPressure |-> minP, maxPressure |-> maxP,
                      deadline |-> deadline, status |-> Created,
                      verified |-> FALSE, createdAt |-> s.now, verifiedAt |-> 0]
           pushed == [s.userEscrows EXCEPT ![sender] = Append(@, escrowId)]
       IN  Return([s EXCEPT !.escrowCounter = escrowId,
                            !.escrows = Store(s.escrows, escrowId, escrow),
                            !.userEscrows = [pushed EXCEPT ![seller] = Append(@, escrowId)]],
                  escrowId)
  ELSE Revert(s)

createEscrow(s, sender, seller, gps, minT, maxT, minH, maxH, minP, maxP, deadline) ==
  IF /\ seller # Zero
     /\ seller # sender
     /\ deadline > s.now
     /\ minT < maxT
     /\ minH < maxH
     /\ minP < maxP
     /\ Len(gps) > 0
  THEN LET escrowId == s.escrowCounter + 1
           escrow == [id |-> escrowId, buyer |-> sender, seller |-> seller,
                      amount |-> 0, destinationGPS |-> gps,
                      minTemperature |-> minT, maxTemperature |-> maxT,
                      minHumidity |-> minH, maxHumidity |-> maxH,
                      minPressure |-> minP, maxPressure |-> maxP,
                      deadline |-> deadline, status |-> Created,
                      verified |-> FALSE, createdAt |-> s.now, verifiedAt |-> 0]
           pushed == [s.userEscrows EXCEPT ![sender] = Append(@, escrowId)]
       IN  Return([s EXCEPT !.escrowCounter = escrowId,
                            !.escrows = Store(s.escrows, escrowId, escrow),
                            !.userEscrows = [pushed EXCEPT ![seller] = Append(@, escrowId)]],
                  escrowId)
  ELSE Revert(s)

\* setPriceAndApprove taking a new price for an escrow in any status
setPriceAndApprove_Reprice(s, sender, id, amount) ==
  IF /\ escrowExists(s, id)
     /\ onlySeller(s, sender, id)
     /\ amount > 0
  THEN Return([s EXCEPT !.escrows[id].amount = amount,
                        !.escrows[id].status = PriceProposed], 0)
  ELSE Revert(s)

setPriceAndApprove(s, sender, id, amount) ==
  IF /\ escrowExists(s, id)
     /\ onlySeller(s, sender, id)
     /\ inStatus(s, id, Created)
     /\ amount > 0
  THEN Return([s EXCEPT !.escrows[id].amount = amount,
                        !.escrows[id].status = PriceProposed], 0)
  ELSE Revert(s)

rejectPrice(s, sender, id) ==
  IF /\ escrowExists(s, id)
     /\ onlySeller(s, sender, id)
     /\ inStatus(s, id, Created)
  THEN Return([s EXCEPT !.escrows[id].status = PriceRejected], 0)
  ELSE Revert(s)

\* fundEscrow accepting an overpayment
fundEscrow_AtLeast(s, sender, id, value) ==
  IF /\ s.balance[sender] >= value
     /\ escrowExists(s, id)
     /\ onlyBuyer(s, sender, id)
     /\ inStatus(s, id, PriceProposed)
     /\ value >= escrowAt(s, id).amount
  THEN Return([s EXCEPT !.escrows[id].status = Funded,
                        !.balance[sender] = @ - value,
                        !.balance[This] = @ + value], 0)
  ELSE Revert(s)

\* msg.value leaves the sender and reaches the contract before the body runs
fundEscrow(s, sender, id, value) ==
  IF /\ s.balance[sender] >= value
     /\ escrowExists(s, id)
     /\ onlyBuyer(s, sender, id)
     /\ inStatus(s, id, PriceProposed)
     /\ value = escrowAt(s, id).amount
  THEN Return([s EXCEPT !.escrows[id].status = Funded,
                        !.balance[sender] = @ - value,
                        !.balance[This] = @ + value], 0)
  ELSE Revert(s)

approveEscrow(s, sender, id) == Revert(s)

\* startDelivery open to the contract owner as well
startDelivery_OwnerToo(s, sender, id) ==
  IF /\ escrowExists(s, id)
     /\ (onlySeller(s, sender, id) \/ onlyOwner(s, sender))
     /\ inStatus(s, id, Funded)
  THEN Return([s EXCEPT !.escrows[id].status = InTransit], 0)
  ELSE Revert(s)

startDelivery(s, sender, id) ==
  IF /\ escrowExists(s, id)
     /\ onlySeller(s, sender, id)
     /\ inStatus(s, id, Funded)
  THEN Return([s EXCEPT !.escrows[id].status = InTransit], 0)
  ELSE Revert(s)

\* markDelivered setting the verified flag as well
markDelivered_MarksVerified(s, sender, id) ==
  IF /\ escrowExists(s, id)
     /\ onlySeller(s, sender, id)
     /\ inStatus(s, id, InTransit)
  THEN Return([s EXCEPT !.escrows[id].status = Delivered,
                        !.escrows[id].verified = TRUE], 0)
  ELSE Revert(s)

markDelivered(s, sender, id) ==
  IF /\ escrowExists(s, id)
     /\ onlySeller(s, sender, id)
     /\ inStatus(s, id, InTransit)
  THEN Return([s EXCEPT !.escrows[id].status = Delivered], 0)
  ELSE Revert(s)

requestVerification(s, sender, id) ==
  IF /\ escrowExists(s, id)
     /\ escrowAt(s, id).status \in {InTransit, Delivered}
     /\ sender \in {escrowAt(s, id).buyer, escrowAt(s, id).seller}
  THEN Return(s, 0)
  ELSE Revert(s)

\* the call that pays the seller of a Completed escrow; ok = FALSE reverts the caller
releaseFunds(s, id) ==
  IF /\ escrowAt(s, id).status = Completed
     /\ CanSend(s, escrowAt(s, id).seller, escrowAt(s, id).amount)
  THEN Return(Send(s, escrowAt(s, id).seller, escrowAt(s, id).amount), 0)
  ELSE Revert(s)

\* verifyDelivery without the onlyOracle modifier
verifyDelivery_AnyCaller(s, sender, id, gps, temperature, humidity, pressure, checks) ==
  IF /\ escrowExists(s, id)
     /\ escrowAt(s, id).status = Delivered
     /\ ~escrowAt(s, id).verified
  THEN LET verified == checks[1] /\ checks[2] /\ checks[3] /\ checks[4]
           data == [currentGPS |-> gps, temperature |-> temperature,
                    humidity |-> humidity, pressure |-> pressure,
                    timestamp |-> s.now, gpsMatched |-> checks[1],
                    temperatureValid |-> checks[2], humidityValid |-> checks[3],
                    pressureValid |-> checks[4]]
           recorded == [s EXCEPT !.verifications = Store(s.verifications, id, data),
                                 !.escrows[id].verified = verified,
                                 !.escrows[id].verifiedAt = s.now]
       IN  IF verified
           THEN LET released == releaseFunds([recorded EXCEPT !.escrows[id].status = Completed], id)
                IN  IF released.ok THEN Return(released.st, 0) ELSE Revert(s)
           ELSE Return(recorded, 0)
  ELSE Revert(s)

\* verifyDelivery leaving the pressure check out of the conjunction
verifyDelivery_NoPressure(s, sender, id, gps, temperature, humidity, pressure, checks) ==
  IF /\ onlyOracle(s, sender)
     /\ escrowExists(s, id)
     /\ escrowAt(s, id).status = Delivered
     /\ ~escrowAt(s, id).verified
  THEN LET verified == checks[1] /\ checks[2] /\ checks[3]
           data == [currentGPS |-> gps, temperature |-> temperature,
                    humidity |-> humidity, pressure |-> pressure,
                    timestamp |-> s.now, gpsMatched |-> checks[1],
                    temperatureValid |-> checks[2], humidityValid |-> checks[3],
                    pressureValid |-> checks[4]]
           recorded == [s EXCEPT !.verifications = Store(s.verifications, id, data),
                                 !.escrows[id].verified = verified,
                                 !.escrows[id].verifiedAt = s.now]
       IN  IF verified
           THEN LET released == releaseFunds([recorded EXCEPT !.escrows[id].status = Completed], id)
                IN  IF released.ok THEN Return(released.st, 0) ELSE Revert(s)
           ELSE Return(recorded, 0)
  ELSE Revert(s)

\* verifyDelivery putting the escrow into Disputed when a check fails
verifyDelivery_DisputeOnFail(s, sender, id, gps, temperature, humidity, pressure, checks) ==
  IF /\ onlyOracle(s, sender)
     /\ escrowExists(s, id)
     /\ escrowAt(s, id).status = Delivered
     /\ ~escrowAt(s, id).verified
  THEN LET verified == checks[1] /\ checks[2] /\ checks[3] /\ checks[4]
           data == [currentGPS |-> gps, temperature |-> temperature,
                    humidity |-> humidity, pressure |-> pressure,
                    timestamp |-> s.now, gpsMatched |-> checks[1],
                    temperatureValid |-> checks[2], humidityValid |-> checks[3],
                    pressureValid |-> checks[4]]
           recorded == [s EXCEPT !.verifications = Store(s.verifications, id, data),
                                 !.escrows[id].verified = verified,
                                 !.escrows[id].verifiedAt = s.now]
       IN  IF verified
           THEN LET released == releaseFunds([recorded EXCEPT !.escrows[id].status = Completed], id)
                IN  IF released.ok THEN Return(released.st, 0) ELSE Revert(s)
           ELSE Return([recorded EXCEPT !.escrows[id].status = Disputed], 0)
  ELSE Revert(s)

\* verifyDelivery marking the escrow verified whatever the checks say
verifyDelivery_AlwaysVerified(s, sender, id, gps, temperature, humidity, pressure, checks) ==
  IF /\ onlyOracle(s, sender)
     /\ escrowExists(s, id)
     /\ escrowAt(s, id).status = Delivered
     /\ ~escrowAt(s, id).verified
  THEN LET verified == checks[1] /\ checks[2] /\ checks[3] /\ checks[4]
           data == [currentGPS |-> gps, temperature |-> temperature,
                    humidity |-> humidity, pressure |-> pressure,
                    timestamp |-> s.now, gpsMatched |-> checks[1],
                    temperatureValid |-> checks[2], humidityValid |-> checks[3],
                    pressureValid |-> checks[4]]
           recorded == [s EXCEPT !.verifications = Store(s.verifications, id, data),
                                 !.escrows[id].verified = TRUE,
                                 !.escrows[id].verifiedAt = s.now]
       IN  IF verified
           THEN LET released == releaseFunds([recorded EXCEPT !.escrows[id].status = Completed], id)
                IN  IF released.ok THEN Return(released.st, 0) ELSE Revert(s)
           ELSE Return(recorded, 0)
  ELSE Revert(s)

\* verifyDelivery keeping the record of an earlier attempt
verifyDelivery_FirstRecordKept(s, sender, id, gps, temperature, humidity, pressure, checks) ==
  IF /\ onlyOracle(s, sender)
     /\ escrowExists(s, id)
     /\ escrowAt(s, id).status = Delivered
     /\ ~escrowAt(s, id).verified
  THEN LET verified == checks[1] /\ checks[2] /\ checks[3] /\ checks[4]
           data == [currentGPS |-> gps, temperature |-> temperature,
                    humidity |-> humidity, pressure |-> pressure,
                    timestamp |-> s.now, gpsMatched |-> checks[1],
                    temperatureValid |-> checks[2], humidityValid |-> checks[3],
                    pressureValid |-> checks[4]]
           recorded == [s EXCEPT !.verifications =
                                    IF id \in DOMAIN s.verifications /\ ~verified
                                    THEN s.verifications
                                    ELSE Store(s.verifications, id, data),
                                 !.escrows[id].verified = verified,
                                 !.escrows[id].verifiedAt = s.now]
       IN  IF verified
           THEN LET released == releaseFunds([recorded EXCEPT !.escrows[id].status = Completed], id)
                IN  IF released.ok THEN Return(released.st, 0) ELSE Revert(s)
           ELSE Return(recorded, 0)
  ELSE Revert(s)

verifyDelivery(s, sender, id, gps, temperature, humidity, pressure, checks) ==
  IF /\ onlyOracle(s, sender)
     /\ escrowExists(s, id)
     /\ escrowAt(s, id).status = Delivered
     /\ ~escrowAt(s, id).verified
  THEN LET verified == checks[1] /\ checks[2] /\ checks[3] /\ checks[4]
           data == [currentGPS |-> gps, temperature |-> temperature,
                    humidity |-> humidity, pressure |-> pressure,
                    timestamp |-> s.now, gpsMatched |-> checks[1],
                    temperatureValid |-> checks[2], humidityValid |-> checks[3],
                    pressureValid |-> checks[4]]
           recorded == [s EXCEPT !.verifications = Store(s.verifications, id, data),
                                 !.escrows[id].verified = verified,
                                 !.escrows[id].verifiedAt = s.now]
       IN  IF verified
           THEN LET released == releaseFunds([recorded EXCEPT !.escrows[id].status = Completed], id)
                IN  IF released.ok THEN Return(released.st, 0) ELSE Revert(s)
           ELSE Return(recorded, 0)
  ELSE Revert(s)

\* refund letting the buyer in at the deadline itself
refund_AtDeadline(s, sender, id) ==
  IF /\ escrowExists(s, id)
     /\ escrowAt(s, id).status \in {Funded, InTransit, Delivered}
     /\ sender \in {escrowAt(s, id).buyer, s.owner, s.oracle}
     /\ (sender = escrowAt(s, id).buyer => s.now >= escrowAt(s, id).deadline)
     /\ ~escrowAt(s, id).verified
     /\ escrowAt(s, id).amount > 0
     /\ CanSend(s, escrowAt(s, id).buyer, escrowAt(s, id).amount)
  THEN Return(Send([s EXCEPT !.escrows[id].status = Refunded],
                   escrowAt(s, id).buyer, escrowAt(s, id).amount), 0)
  ELSE Revert(s)

\* refund paying the buyer without moving the escrow to Refunded
refund_KeepStatus(s, sender, id) ==
  IF /\ escrowExists(s, id)
     /\ escrowAt(s, id).status \in {Funded, InTransit, Delivered}
     /\ sender \in {escrowAt(s, id).buyer, s.owner, s.oracle}
     /\ (sender = escrowAt(s, id).buyer => s.now > escrowAt(s, id).deadline)
     /\ ~escrowAt(s, id).verified
     /\ escrowAt(s, id).amount > 0
     /\ CanSend(s, escrowAt(s, id).buyer, escrowAt(s, id).amount)
  THEN Return(Send(s, escrowAt(s, id).buyer, escrowAt(s, id).amount), 0)
  ELSE Revert(s)

\* refund holding every caller to the deadline
refund_DeadlineForAll(s, sender, id) ==
  IF /\ escrowExists(s, id)
     /\ escrowAt(s, id).status \in {Funded, InTransit, Delivered}
     /\ sender \in {escrowAt(s, id).buyer, s.owner, s.oracle}
     /\ s.now > escrowAt(s, id).deadline
     /\ ~escrowAt(s, id).verified
     /\ escrowAt(s, id).amount > 0
     /\ CanSend(s, escrowAt(s, id).buyer, escrowAt(s, id).amount)
  THEN Return(Send([s EXCEPT !.escrows[id].status = Refunded],
                   escrowAt(s, id).buyer, escrowAt(s, id).amount), 0)
  ELSE Revert(s)

refund(s, sender, id) ==
  IF /\ escrowExists(s, id)
     /\ escrowAt(s, id).status \in {Funded, InTransit, Delivered}
     /\ sender \in {escrowAt(s, id).buyer, s.owner, s.oracle}
     /\ (sender = escrowAt(s, id).buyer => s.now > escrowAt(s, id).deadline)
     /\ ~escrowAt(s, id).verified
     /\ escrowAt(s, id).amount > 0
     /\ CanSend(s, escrowAt(s, id).buyer, escrowAt(s, id).amount)
  THEN Return(Send([s EXCEPT !.escrows[id].status = Refunded],
                   escrowAt(s, id).buyer, escrowAt(s, id).amount), 0)
  ELSE Revert(s)

setOracle(s, sender, newOracle) ==
  IF onlyOwner(s, sender) /\ newOracle # Zero
  THEN Return([s EXCEPT !.oracle = newOracle], 0)
  ELSE Revert(s)

resetEscrowCounter(s, sender) ==
  IF onlyOwner(s, sender)
  THEN Return([s EXCEPT !.escrowCounter = 0], 0)
  ELSE Revert(s)

clearUserEscrows(s, sender, user) ==
  IF onlyOwner(s, sender)
  THEN Return([s EXCEPT !.userEscrows[user] = <<>>], 0)
  ELSE Revert(s)

clearAllUserEscrows(s, sender) ==
  IF onlyOwner(s, sender) THEN Return(s, 0) ELSE Revert(s)

\* adminUpdateStatus paying out again when the escrow is already in the target status
adminUpdateStatus_PayAgain(s, sender, id, newStatus) ==
  IF escrowExists(s, id) /\ sender \in {s.owner, s.oracle}
  THEN LET escrow == escrowAt(s, id)
           oldStatus == escrow.status
       IN  IF newStatus = Completed
           THEN IF /\ oldStatus # Refunded
                   /\ escrow.amount > 0
                   /\ s.balance[This] >= escrow.amount
                   /\ CanSend(s, escrow.seller, escrow.amount)
                THEN Return(Send([s EXCEPT !.escrows[id].status = Completed,
                                           !.escrows[id].verified = TRUE],
                                 escrow.seller, escrow.amount), 0)
                ELSE Revert(s)
           ELSE IF newStatus = Refunded
           THEN IF /\ oldStatus # Completed
                   /\ escrow.amount > 0
                   /\ s.balance[This] >= escrow.amount
                   /\ CanSend(s, escrow.buyer, escrow.amount)
                THEN Return(Send([s EXCEPT !.escrows[id].status = Refunded],
                                 escrow.buyer, escrow.amount), 0)
                ELSE Revert(s)
           ELSE Return([s EXCEPT !.escrows[id].status = newStatus], 0)
  ELSE Revert(s)

\* adminUpdateStatus completing an escrow without marking it verified
adminUpdateStatus_Unverified(s, sender, id, newStatus) ==
  IF escrowExists(s, id) /\ sender \in {s.owner, s.oracle}
  THEN LET escrow == escrowAt(s, id)
           oldStatus == escrow.status
       IN  IF newStatus = Completed /\ oldStatus # Completed
           THEN IF /\ oldStatus # Refunded /\ oldStatus # Completed
                   /\ escrow.amount > 0
                   /\ s.balance[This] >= escrow.amount
                   /\ CanSend(s, escrow.seller, escrow.amount)
                THEN Return(Send([s EXCEPT !.escrows[id].status = Completed],
                                 escrow.seller, escrow.amount), 0)
                ELSE Revert(s)
           ELSE IF newStatus = Refunded /\ oldStatus # Refunded
           THEN IF /\ oldStatus # Completed /\ oldStatus # Refunded
                   /\ escrow.amount > 0
                   /\ s.balance[This] >= escrow.amount
                   /\ CanSend(s, escrow.buyer, escrow.amount)
                THEN Return(Send([s EXCEPT !.escrows[id].status = Refunded],
                                 escrow.buyer, escrow.amount), 0)
                ELSE Revert(s)
           ELSE Return([s EXCEPT !.escrows[id].status = newStatus], 0)
  ELSE Revert(s)

adminUpdateStatus(s, sender, id, newStatus) ==
  IF escrowExists(s, id) /\ sender \in {s.owner, s.oracle}
  THEN LET escrow == escrowAt(s, id)
           oldStatus == escrow.status
       IN  IF newStatus = Completed /\ oldStatus # Completed
           THEN IF /\ oldStatus # Refunded /\ oldStatus # Completed
                   /\ escrow.amount > 0
                   /\ s.balance[This] >= escrow.amount
                   /\ CanSend(s, escrow.seller, escrow.amount)
                THEN Return(Send([s EXCEPT !.escrows[id].status = Completed,
                                           !.escrows[id].verified = TRUE],
                                 escrow.seller, escrow.amount), 0)
                ELSE Revert(s)
           ELSE IF newStatus = Refunded /\ oldStatus # Refunded
           THEN IF /\ oldStatus # Completed /\ oldStatus # Refunded
                   /\ escrow.amount > 0
                   /\ s.balance[This] >= escrow.amount
                   /\ CanSend(s, escrow.buyer, escrow.amount)
                THEN Return(Send([s EXCEPT !.escrows[id].status = Refunded],
                                 escrow.buyer, escrow.amount), 0)
                ELSE Revert(s)
           ELSE Return([s EXCEPT !.escrows[id].status = newStatus], 0)
  ELSE Revert(s)

-----------------------------------------------------------------------------
(* The backend service: text and time *)

\* an instant of the service's clock
Instant(day, sec) == [day |-> day, sec |-> sec]
Before(a, b) == a.day < b.day \/ (a.day = b.day /\ a.sec < b.sec)

\* the character that separates date and time in Date.toISOString(), and
\* the one in SQLite's datetime('now')
CharT == 84
CharSpace == 32

\* new Date(t).toISOString(): "YYYY-MM-DD" "T" "HH:MM:SS.sssZ"
toISOString(t) == <<t.day, CharT, t.sec>>
\* SQLite datetime('now'): "YYYY-MM-DD" " " "HH:MM:SS"
datetimeNow(t) == <<t.day, CharSpace, t.sec>>
\* the instant a stored timestamp text denotes
InstantOf(text) == Instant(text[1], text[3])

\* a > b between two TEXT values in SQLite: byte by byte, left to right
TextGreater(a, b) ==
  \/ a[1] > b[1]
  \/ a[1] = b[1] /\ a[2] > b[2]
  \/ a[1] = b[1] /\ a[2] = b[2] /\ a[3] > b[3]

\* Date.now() + expiresInHours * 60 * 60 * 1000 for the 24 hours of a session
ExpiresAt(t) == Instant(t.day + 1, t.sec)

\* a wallet address as text: the account it names and the case of its hex digits
Address(key, case) == [key |-> key, case |-> case]
toLowerCase(a) == [a EXCEPT !.case = "lower"]
NotAnAddress == Address("", "none")
isAddress(a) == a # NotAnAddress

AdminKey == "0x70997970C51812dc3A010C7d01b50e0d17dc79C8"
ShipperKey == "0xf39Fd6e51aad88F6F4ce6aB8827279cffFb92266"
LogisticsKey == "0x3C44CdDdB6a900fa2b585dd299e03d12FA4293BC"
OtherKey == "0x90F79bf6EB2c4f870365E785982E1f101E93b906"

\* bcrypt: a password value is a plain text and the number of times it was hashed
Plain(p) == [plain |-> p, times |-> 0]
Hash(v) == [v EXCEPT !.times = @ + 1]
defaultPassword == "12345678"
PasswordLength(p) == IF p = "" THEN 0 ELSE IF p = "short" THEN 5 ELSE 8

-----------------------------------------------------------------------------
(* The backend service: models/User.js and models/Session.js *)

\* the database: users is the table in id order, sessions maps a token to its row
Db == [users |-> users, sessions |-> sessions, nextToken |-> nextToken]

\* dbGet resolves undefined when no row matches
NoRow == [id |-> 0]

\* of the rows of the users table with these ids, the first in rowid order
FirstUser(db, ids) ==
  IF ids = {} THEN NoRow
  ELSE db.users[CHOOSE i \in ids : \A j \in ids : i <= j]

User_findById(db, id) == IF id \in DOMAIN db.users THEN db.users[id] ELSE NoRow
User_findByUsername(db, username) ==
  FirstUser(db, {i \in DOMAIN db.users : db.users[i].username = username})
User_findByEmail(db, email) ==
  FirstUser(db, {i \in DOMAIN db.users : db.users[i].email = email})
User_findByWalletAddress(db, walletAddress) ==
  FirstUser(db, {i \in DOMAIN db.users :
                   toLowerCase(db.users[i].wallet_address) = toLowerCase(walletAddress)})

\* the UNIQUE constraints of the users table (username, email) and of
\* idx_users_wallet_unique (wallet_address, compared as stored) for row id
UniqueViolated(db, id, username, email, walletAddress) ==
  \E i \in DOMAIN db.users :
    /\ i # id
    /\ \/ db.users[i].username = username
       \/ db.users[i].email = email
       \/ db.users[i].wallet_address = walletAddress

\* an insert that pays no regard to the UNIQUE constraints
User_create_Unconstrained(db, username, email, password, role, walletAddress) ==
  [ok |-> TRUE,
   db |-> [db EXCEPT !.users = Append(db.users,
             [id |-> Len(db.users) + 1, username |-> username, email |-> email,
              password |-> Hash(password), role |-> role,
              wallet_address |-> walletAddress])]]

\* User.create: ok = FALSE is the UNIQUE constraint error dbRun rejects with
User_create(db, username, email, password, role, walletAddress) ==
  IF UniqueViolated(db, 0, username, email, walletAddress)
  THEN [ok |-> FALSE, db |-> db]
  ELSE [ok |-> TRUE,
        db |-> [db EXCEPT !.users = Append(db.users,
                  [id |-> Len(db.users) + 1, username |-> username, email |-> email,
                   password |-> Hash(password), role |-> role,
                   wallet_address |-> walletAddress])]]

User_verifyPassword(user, password) == user.password = Hash(Plain(password))

User_updatePassword(db, id, newPassword) ==
  [db EXCEPT !.users[id].password = Hash(Plain(newPassword))]

User_update(db, id, username, email, role, walletAddress) ==
  IF UniqueViolated(db, id, username, email, walletAddress)
  THEN [ok |-> FALSE, db |-> db]
  ELSE [ok |-> TRUE,
        db |-> [db EXCEPT !.users[id].username = username,
                          !.users[id].email = email,
                          !.users[id].role = role,
                          !.users[id].wallet_address = walletAddress]]

\* no session is a token that is not in the table
NoToken == 0

Session_findByToken(db, t, token) ==
  IF /\ token \in DOMAIN db.sessions
     /\ db.sessions[token].user_id \in DOMAIN db.users
     /\ TextGreater(db.sessions[token].expires_at, datetimeNow(t))
  THEN db.sessions[token]
  ELSE NoRow

\* Session.create: the random token is a fresh one
Session_create(db, t, userId, walletAddress) ==
  LET token == db.nextToken + 1
  IN  [db EXCEPT !.nextToken = token,
                 !.sessions = Store(db.sessions, token,
                    [id |-> token, token |-> token, user_id |-> userId,
                     wallet_address |-> walletAddress,
                     expires_at |-> toISOString(ExpiresAt(t))])]

Session_delete(db, token) ==
  [db EXCEPT !.sessions = [k \in DOMAIN db.sessions \ {token} |-> db.sessions[k]]]

\* a sweep that compares the instants the two texts denote
Session_deleteExpired_ByInstant(db, t) ==
  [db EXCEPT !.sessions =
     [k \in {k \in DOMAIN db.sessions : Before(t, InstantOf(db.sessions[k].expires_at))}
        |-> db.sessions[k]]]

Session_deleteExpired(db, t) ==
  [db EXCEPT !.sessions =
     [k \in {k \in DOMAIN db.sessions :
               TextGreater(db.sessions[k].expires_at, datetimeNow(t))}
        |-> db.sessions[k]]]

-----------------------------------------------------------------------------
(* The backend service: database/db.js *)

defaultAccounts ==
  << [username |-> "admin", email |-> "admin@example.com", role |-> "admin",
      walletAddress |-> Address(AdminKey, "checksum")],
     [username |-> "shipper", email |-> "shipper@example.com", role |-> "shipper",
      walletAddress |-> Address(ShipperKey, "checksum")],
     [username |-> "logistics", email |-> "logistics@example.com", role |-> "logistics",
      walletAddress |-> Address(LogisticsKey, "checksum")] >>

\* one turn of the loop of initializeDefaultUsers; ok = FALSE is a thrown error
initializeAccount(db, account) ==
  LET existingUser == User_findByUsername(db, account.username)
  IN  IF existingUser = NoRow
      THEN User_create(db, account.username, account.email,
                       Hash(Plain(defaultPassword)), account.role, account.walletAddress)
      ELSE LET updated == User_updatePassword(db, existingUser.id, defaultPassword)
           IN  IF toLowerCase(existingUser.wallet_address) # toLowerCase(account.walletAddress)
               THEN User_update(updated, existingUser.id, existingUser.username,
                                existingUser.email, existingUser.role, account.walletAddress)
               ELSE [ok |-> TRUE, db |-> updated]

\* initializeDefaultUsers: the loop stops at the first error, which is logged
initializeDefaultUsers(db) ==
  LET r1 == initializeAccount(db, defaultAccounts[1])
      r2 == initializeAccount(r1.db, defaultAccounts[2])
      r3 == initializeAccount(r2.db, defaultAccounts[3])
  IN  IF ~r1.ok THEN r1.db ELSE IF ~r2.ok THEN r2.db ELSE r3.db

\* the database of a first start: empty tables, then the default accounts
EmptyDb == [users |-> <<>>, sessions |-> <<>>, nextToken |-> 0]

-----------------------------------------------------------------------------
(* The backend service: routes/authRoutes.js *)

\* a field the request body does not carry
MissingAddress == Address("", "missing")
MissingSignature == [present |-> FALSE, wellFormed |-> FALSE, signer |-> ""]
Signature(signer) == [present |-> TRUE, wellFormed |-> TRUE, signer |-> signer]
MalformedSignature == [present |-> TRUE, wellFormed |-> FALSE, signer |-> ""]

\* ethers.verifyMessage: the checksummed address of the key that signed
verifyMessage(signature) == Address(signature.signer, "checksum")

\* a response: the HTTP status, what the body says, the database afterwards
\* and the session token the body carries (NoToken if none)
Response(status, error, db) == [status |-> status, error |-> error, db |-> db, token |-> NoToken]

\* POST /register taking every role the users table allows
postRegister_TableRoles(db, req) ==
  IF \/ req.username = "" \/ req.email = "" \/ req.password = "" \/ req.role = ""
     \/ req.walletAddress = MissingAddress \/ ~req.signature.present
  THEN Response(400, "required", db)
  ELSE IF req.role \notin {"admin", "shipper", "logistics"}
  THEN Response(400, "Invalid role", db)
  ELSE IF PasswordLength(req.password) < 6
  THEN Response(400, "Password must be at least 6 characters", db)
  ELSE IF ~isAddress(req.walletAddress)
  THEN Response(400, "Invalid wallet address format", db)
  ELSE IF ~req.signature.wellFormed
  THEN Response(400, "Invalid signature format", db)
  ELSE IF toLowerCase(verifyMessage(req.signature)) # toLowerCase(req.walletAddress)
  THEN Response(400, "Signature verification failed", db)
  ELSE IF User_findByWalletAddress(db, toLowerCase(req.walletAddress)) # NoRow
  THEN Response(400, "This wallet address is already registered to another account", db)
  ELSE IF \/ User_findByUsername(db, req.username) # NoRow
          \/ User_findByEmail(db, req.email) # NoRow
  THEN Response(400, "Username or email already exists", db)
  ELSE LET created == User_create(db, req.username, req.email, Plain(req.password),
                                  req.role, toLowerCase(req.walletAddress))
       IN  IF created.ok
           THEN Response(201, "", created.db)
           ELSE Response(400, "This wallet address is already registered to another account", db)

\* POST /register
postRegister(db, req) ==
  IF \/ req.username = "" \/ req.email = "" \/ req.password = "" \/ req.role = ""
     \/ req.walletAddress = MissingAddress \/ ~req.signature.present
  THEN Response(400, "required", db)
  ELSE IF req.role \notin {"shipper", "logistics"}
  THEN Response(400, "Invalid role", db)
  ELSE IF PasswordLength(req.password) < 6
  THEN Response(400, "Password must be at least 6 characters", db)
  ELSE IF ~isAddress(req.walletAddress)
  THEN Response(400, "Invalid wallet address format", db)
  ELSE IF ~req.signature.wellFormed
  THEN Response(400, "Invalid signature format", db)
  ELSE IF toLowerCase(verifyMessage(req.signature)) # toLowerCase(req.walletAddress)
  THEN Response(400, "Signature verification failed", db)
  ELSE IF User_findByWalletAddress(db, toLowerCase(req.walletAddress)) # NoRow
  THEN Response(400, "This wallet address is already registered to another account", db)
  ELSE IF \/ User_findByUsername(db, req.username) # NoRow
          \/ User_findByEmail(db, req.email) # NoRow
  THEN Response(400, "Username or email already exists", db)
  ELSE LET created == User_create(db, req.username, req.email, Plain(req.password),
                                  req.role, toLowerCase(req.walletAddress))
       IN  IF created.ok
           THEN Response(201, "", created.db)
           ELSE Response(400, "This wallet address is already registered to another account", db)

\* an error dbRun rejects with, by the text the handler looks for in its message
UniqueConstraint == "UNIQUE constraint"
NoError == ""
User_createError(created) == IF created.ok THEN NoError ELSE UniqueConstraint

\* POST /register up to the call of User.create: the answer of the check that
\* fails, or NoRow if the handler goes on to User.create
postRegister_Checks(db, req) ==
  IF \/ req.username = "" \/ req.email = "" \/ req.password = "" \/ req.role = ""
     \/ req.walletAddress = MissingAddress \/ ~req.signature.present
  THEN Response(400, "required", db)
  ELSE IF req.role \notin {"shipper", "logistics"}
  THEN Response(400, "Invalid role", db)
  ELSE IF PasswordLength(req.password) < 6
  THEN Response(400, "Password must be at least 6 characters", db)
  ELSE IF ~isAddress(req.walletAddress)
  THEN Response(400, "Invalid wallet address format", db)
  ELSE IF ~req.signature.wellFormed
  THEN Response(400, "Invalid signature format", db)
  ELSE IF toLowerCase(verifyMessage(req.signature)) # toLowerCase(req.walletAddress)
  THEN Response(400, "Signature verification failed", db)
  ELSE IF User_findByWalletAddress(db, toLowerCase(req.walletAddress)) # NoRow
  THEN Response(400, "This wallet address is already registered to another account", db)
  ELSE IF \/ User_findByUsername(db, req.username) # NoRow
          \/ User_findByEmail(db, req.email) # NoRow
  THEN Response(400, "Username or email already exists", db)
  ELSE NoRow

\* POST /register from the call of User.create on, with its catch block
postRegister_Insert(db, req) ==
  LET created == User_create(db, req.username, req.email, Plain(req.password),
                             req.role, toLowerCase(req.walletAddress))
  IN  IF created.ok
      THEN Response(201, "", created.db)
      ELSE IF User_createError(created) = UniqueConstraint
      THEN Response(400, "This wallet address is already registered to another account", db)
      ELSE Response(500, "Failed to register user", db)

\* POST /login
postLogin(db, t, username, password) ==
  IF username = "" \/ password = ""
  THEN Response(400, "required", db)
  ELSE LET user == User_findByUsername(db, username)
       IN  IF user = NoRow
           THEN Response(404, "User not found", db)
           ELSE IF ~User_verifyPassword(user, password)
           THEN Response(401, "Invalid password", db)
           ELSE LET created == Session_create(db, t, user.id, user.wallet_address)
                IN  [Response(200, "", created) EXCEPT !.token = created.nextToken]

\* GET /verify and GET /wallet: the same gate before the user is returned
getVerify(db, t, token) ==
  IF token = NoToken
  THEN Response(401, "No token provided", db)
  ELSE LET session == Session_findByToken(db, t, token)
       IN  IF session = NoRow
           THEN Response(401, "Invalid or expired token", db)
           ELSE IF User_findById(db, session.user_id) = NoRow
           THEN Response(404, "User not found", db)
           ELSE Response(200, "", db)

getWallet(db, t, token) ==
  IF token = NoToken
  THEN Response(401, "No token provided", db)
  ELSE LET session == Session_findByToken(db, t, token)
       IN  IF session = NoRow
           THEN Response(401, "Invalid or expired token", db)
           ELSE IF User_findById(db, session.user_id) = NoRow
           THEN Response(404, "User not found", db)
           ELSE Response(200, "", db)

\* POST /logout ending every session of the token's user
postLogout_OfUser(db, token) ==
  IF token # NoToken /\ token \in DOMAIN db.sessions
  THEN Response(200, "",
         [db EXCEPT !.sessions =
            [k \in {k \in DOMAIN db.sessions :
                      db.sessions[k].user_id # db.sessions[token].user_id}
               |-> db.sessions[k]]])
  ELSE Response(200, "", db)

\* POST /logout
postLogout(db, token) ==
  IF token # NoToken THEN Response(200, "", Session_delete(db, token))
  ELSE Response(200, "", db)

\* a variant of PUT /wallet that ends the session it was called with
putWallet_EndsSession(db, t, token, req) ==
  IF token = NoToken
  THEN Response(401, "No token provided", db)
  ELSE LET session == Session_findByToken(db, t, token)
       IN
  IF session = NoRow
  THEN Response(401, "Invalid or expired token", db)
  ELSE IF req.walletAddress = MissingAddress \/ ~req.signature.present
  THEN Response(400, "required", db)
  ELSE IF ~isAddress(req.walletAddress)
  THEN Response(400, "Invalid wallet address format", db)
  ELSE LET user == User_findById(db, session.user_id)
           normalizedWalletAddress == toLowerCase(req.walletAddress)
           existingUser == User_findByWalletAddress(db, normalizedWalletAddress)
       IN
  IF user = NoRow
  THEN Response(404, "User not found", db)
  ELSE IF existingUser # NoRow /\ existingUser.id # user.id
  THEN Response(400, "This wallet address is already registered to another account", db)
  ELSE IF toLowerCase(user.wallet_address) = normalizedWalletAddress
  THEN Response(200, "Wallet address is already registered to this account", db)
  ELSE IF ~req.signature.wellFormed
  THEN Response(400, "Invalid signature format", db)
  ELSE IF toLowerCase(verifyMessage(req.signature)) # normalizedWalletAddress
  THEN Response(400, "Signature verification failed", db)
  ELSE LET updated == User_update(db, user.id, user.username, user.email, user.role,
                                  normalizedWalletAddress)
       IN  IF ~updated.ok
           THEN Response(400, "This wallet address is already registered to another account", db)
           ELSE LET created == Session_create(Session_delete(updated.db, token), t, user.id,
                                                 req.walletAddress)
                IN  [Response(200, "", created) EXCEPT !.token = created.nextToken]

\* PUT /wallet
putWallet(db, t, token, req) ==
  IF token = NoToken
  THEN Response(401, "No token provided", db)
  ELSE LET session == Session_findByToken(db, t, token)
       IN
  IF session = NoRow
  THEN Response(401, "Invalid or expired token", db)
  ELSE IF req.walletAddress = MissingAddress \/ ~req.signature.present
  THEN Response(400, "required", db)
  ELSE IF ~isAddress(req.walletAddress)
  THEN Response(400, "Invalid wallet address format", db)
  ELSE LET user == User_findById(db, session.user_id)
           normalizedWalletAddress == toLowerCase(req.walletAddress)
           existingUser == User_findByWalletAddress(db, normalizedWalletAddress)
       IN
  IF user = NoRow
  THEN Response(404, "User not found", db)
  ELSE IF existingUser # NoRow /\ existingUser.id # user.id
  THEN Response(400, "This wallet address is already registered to another account", db)
  ELSE IF toLowerCase(user.wallet_address) = normalizedWalletAddress
  THEN Response(200, "Wallet address is already registered to this account", db)
  ELSE IF ~req.signature.wellFormed
  THEN Response(400, "Invalid signature format", db)
  ELSE IF toLowerCase(verifyMessage(req.signature)) # normalizedWalletAddress
  THEN Response(400, "Signature verification failed", db)
  ELSE LET updated == User_update(db, user.id, user.username, user.email, user.role,
                                  normalizedWalletAddress)
       IN  IF ~updated.ok
           THEN Response(400, "This wallet address is already registered to another account", db)
           ELSE LET created == Session_create(updated.db, t, user.id, req.walletAddress)
                IN  [Response(200, "", created) EXCEPT !.token = created.nextToken]

-----------------------------------------------------------------------------
(* The backend service: routes/oracleRoutes.js *)

\* the body carries no status
NoStatus == -1

\* a call of blockchainService, or none
NoCall == "none"

\* the branch PUT /escrow/:escrowId/status takes for the escrow's status on
\* chain and the status asked for: the blockchainService call it makes
\* (NoCall: it answers 400 without one)
statusDispatch(currentStatus, targetStatus) ==
  IF targetStatus = 2 /\ (currentStatus = 0 \/ currentStatus = 1)
  THEN "adminStartDelivery"
  ELSE IF targetStatus = 3 /\ currentStatus = 2
  THEN "adminMarkDelivered"
  ELSE IF targetStatus = 4 /\ (currentStatus = 2 \/ currentStatus = 3)
  THEN NoCall
  ELSE IF targetStatus = 6 /\ currentStatus = 5
  THEN "processVerificationRequest"
  ELSE "adminUpdateStatus"

\* PUT /escrow/:escrowId/status: the HTTP status and the blockchainService call
\* made; chainOk says whether that call went through
putEscrowStatus(db, t, token, targetStatus, currentStatus, initialized, chainOk) ==
  IF token = NoToken
  THEN [status |-> 401, call |-> NoCall]
  ELSE LET session == Session_findByToken(db, t, token)
           user == User_findById(db, session.user_id)
       IN
  IF session = NoRow
  THEN [status |-> 401, call |-> NoCall]
  ELSE IF user = NoRow \/ user.role # "admin"
  THEN [status |-> 403, call |-> NoCall]
  ELSE IF targetStatus = NoStatus
  THEN [status |-> 400, call |-> NoCall]
  ELSE IF ~initialized
  THEN [status |-> 500, call |-> NoCall]
  ELSE LET call == statusDispatch(currentStatus, targetStatus)
       IN  IF call = NoCall
           THEN [status |-> 400, call |-> NoCall]
           ELSE [status |-> IF chainOk THEN 200 ELSE 400, call |-> call]

-----------------------------------------------------------------------------
(* The oracle service: JavaScript values *)

\* A JavaScript value with its type.  A number is held in hundredths (25.0 is
\* 2500), which is exact for every value the model uses; a bigint is held as
\* the integer it is.
Num(hundredths) == [type |-> "number", value |-> hundredths]
BigInt(n) == [type |-> "bigint", value |-> n]
Undefined == [type |-> "undefined", value |-> 0]
Text == [type |-> "string", value |-> 0]
NaN == [type |-> "NaN", value |-> 0]

\* typeof v
typeof(v) == IF v.type = "NaN" THEN "number" ELSE v.type

\* Number(v) of a bigint or a number: the number of the same value
Number(v) ==
  IF v.type = "bigint" THEN Num(v.value * 100)
  ELSE IF v.type = "number" THEN v
  ELSE NaN

\* a === b: never true across types
StrictEquals(a, b) == a.type = b.type /\ a.type # "NaN" /\ a.value = b.value

\* a >= b and a <= b, a < b, a > b on numbers: false when either side is not
\* a number (undefined converts to NaN)
IsNum(v) == v.type = "number"
Ge(a, b) == IsNum(a) /\ IsNum(b) /\ a.value >= b.value
Le(a, b) == IsNum(a) /\ IsNum(b) /\ a.value <= b.value
Lt(a, b) == IsNum(a) /\ IsNum(b) /\ a.value < b.value
Gt(a, b) == IsNum(a) /\ IsNum(b) /\ a.value > b.value

\* a - b
Minus(a, b) == IF IsNum(a) /\ IsNum(b) THEN Num(a.value - b.value) ELSE NaN

\* a / 100, for the scaled bounds (whole numbers: the division is exact)
Div100(a) == IF IsNum(a) THEN Num(a.value \div 100) ELSE NaN

\* Math.round(a * 100) as the int256 the contract is handed
RoundTimes100(a) == IF IsNum(a) THEN a.value ELSE 0

-----------------------------------------------------------------------------
(* The oracle service: config/iotConfig.js and services/validatorService.js *)

GPS_TOLERANCE_METERS == 100
API_TIMEOUT == 10000

\* Positions are points of a grid with one metre between neighbours, the
\* destination of the escrows at its origin.
DestinationLatitude == 0
DestinationLongitude == 0
Position(latitude, longitude) ==
  [latitude |-> Num(latitude * 100), longitude |-> Num(longitude * 100)]

\* destinationGPS.split(',').map(Number)
parseGPS(text) ==
  IF text = DestinationGPS
  THEN Position(DestinationLatitude, DestinationLongitude)
  ELSE [latitude |-> NaN, longitude |-> NaN]

Abs(n) == IF n < 0 THEN -n ELSE n

\* calculateDistance: the length of the way between two points of the grid
calculateDistance(lat1, lon1, lat2, lon2) ==
  IF IsNum(lat1) /\ IsNum(lon1) /\ IsNum(lat2) /\ IsNum(lon2)
  THEN Num(Abs(lat2.value - lat1.value) + Abs(lon2.value - lon1.value))
  ELSE NaN

validateGPS(currentGPS, destinationGPS) ==
  LET dest == parseGPS(destinationGPS)
      distance == calculateDistance(currentGPS.latitude, currentGPS.longitude,
                                    dest.latitude, dest.longitude)
  IN  IF ~IsNum(dest.latitude) \/ ~IsNum(dest.longitude)
      THEN [matched |-> FALSE, distance |-> NaN]
      ELSE [matched |-> Le(distance, Num(GPS_TOLERANCE_METERS * 100)),
            distance |-> distance]

\* validateTemperature with the upper end of the range left out
validateTemperature_OpenEnd(temperature, minTemperature, maxTemperature) ==
  LET minTemp == Div100(minTemperature)
      maxTemp == Div100(maxTemperature)
  IN  [valid |-> Ge(temperature, minTemp) /\ Lt(temperature, maxTemp),
       delta |-> IF Lt(temperature, minTemp) THEN Minus(temperature, minTemp)
                 ELSE IF Gt(temperature, maxTemp) THEN Minus(temperature, maxTemp)
                 ELSE Num(0),
       current |-> temperature, min |-> minTemp, max |-> maxTemp]

validateTemperature(temperature, minTemperature, maxTemperature) ==
  LET minTemp == Div100(minTemperature)
      maxTemp == Div100(maxTemperature)
  IN  [valid |-> Ge(temperature, minTemp) /\ Le(temperature, maxTemp),
       delta |-> IF Lt(temperature, minTemp) THEN Minus(temperature, minTemp)
                 ELSE IF Gt(temperature, maxTemp) THEN Minus(temperature, maxTemp)
                 ELSE Num(0),
       current |-> temperature, min |-> minTemp, max |-> maxTemp]

validateHumidity(humidity, minHumidity, maxHumidity) ==
  LET minHum == Div100(minHumidity)
      maxHum == Div100(maxHumidity)
  IN  [valid |-> Ge(humidity, minHum) /\ Le(humidity, maxHum),
       delta |-> IF Lt(humidity, minHum) THEN Minus(humidity, minHum)
                 ELSE IF Gt(humidity, maxHum) THEN Minus(humidity, maxHum)
                 ELSE Num(0),
       current |-> humidity, min |-> minHum, max |-> maxHum]

validatePressure(pressure, minPressure, maxPressure) ==
  LET minPres == Div100(minPressure)
      maxPres == Div100(maxPressure)
  IN  [valid |-> Ge(pressure, minPres) /\ Le(pressure, maxPres),
       delta |-> IF Lt(pressure, minPres) THEN Minus(pressure, minPres)
                 ELSE IF Gt(pressure, maxPres) THEN Minus(pressure, maxPres)
                 ELSE Num(0),
       current |-> pressure, min |-> minPres, max |-> maxPres]

\* validateDelivery of services/validatorService.js, the one the verification
\* pipeline imports
validateDelivery(iotData, destinationGPS, minTemperature, maxTemperature) ==
  LET gpsResult == validateGPS(iotData.gps, destinationGPS)
      tempResult == validateTemperature(iotData.temperature, minTemperature, maxTemperature)
  IN  [gpsMatched |-> gpsResult.matched,
       gpsDistance |-> gpsResult.distance,
       temperatureValid |-> tempResult.valid,
       temperatureDelta |-> tempResult.delta,
       verified |-> gpsResult.matched /\ tempResult.valid]

\* validateDelivery of the ValidatorService with the humidity and pressure
\* ranges
ValidatorService_validateDelivery(iotData, destinationGPS, minTemperature, maxTemperature, minHumidity, maxHumidity, minPressure, maxPressure) ==
  LET gpsResult == validateGPS(iotData.gps, destinationGPS)
      tempResult == validateTemperature(iotData.temperature, minTemperature, maxTemperature)
      humidityResult == validateHumidity(iotData.humidity, minHumidity, maxHumidity)
      pressureResult == validatePressure(iotData.pressure, minPressure, maxPressure)
  IN  [gpsMatched |-> gpsResult.matched, gpsDistance |-> gpsResult.distance,
       temperatureValid |-> tempResult.valid, temperatureDelta |-> tempResult.delta,
       humidityValid |-> humidityResult.valid, humidityDelta |-> humidityResult.delta,
       pressureValid |-> pressureResult.valid, pressureDelta |-> pressureResult.delta,
       verified |-> gpsResult.matched /\ tempResult.valid
                      /\ humidityResult.valid /\ pressureResult.valid]

\* no reading has been validated
NoChecks ==
  [gpsMatched |-> FALSE, gpsDistance |-> NaN,
   temperatureValid |-> FALSE, temperatureDelta |-> NaN,
   humidityValid |-> FALSE, humidityDelta |-> NaN,
   pressureValid |-> FALSE, pressureDelta |-> NaN, verified |-> FALSE]

-----------------------------------------------------------------------------
(* The oracle service: services/dummyIoTService.js *)

\* the escrow ids the routes hand to the sensor services
EscrowKeys == {"1", "2"}

\* The state of the two sensor services: the delivery objects the simulations
\* made (a simulation's timer holds its own object, whatever the maps say),
\* their timers, the two maps of DummyIoTService and the map of IoTService.
\* A map holds 0 at a key it does not have.
Iot ==
  [deliveries |-> deliveries, intervals |-> intervals,
   activeDeliveries |-> activeDeliveries,
   simulationIntervals |-> simulationIntervals, mockData |-> mockData]

\* the default origin, on the grid
OriginLatitude == 3000
OriginLongitude == 6000
OriginGPS == Position(OriginLatitude, OriginLongitude)

\* the interval of a simulation's timer, in milliseconds
TickMs == 2000

\* a / b as an exact fraction, and Math.min(a / b, 1)
Fraction(a, b) == [num |-> a, den |-> b]
MinOne(f) == IF f.num >= f.den THEN Fraction(1, 1) ELSE f
FractionLess(f, g) == f.num * g.den < g.num * f.den

\* origin + step * stepCount, step = (destination - origin) / steps
Along(from, to, stepCount, steps) ==
  Num(from.value + ((to.value - from.value) * stepCount) \div steps)

\* Math.max(minTemp, Math.min(maxTemp, t))
Clamp(minTemp, maxTemp, t) ==
  IF Lt(t, minTemp) THEN minTemp ELSE IF Gt(t, maxTemp) THEN maxTemp ELSE t

stopDeliverySimulation(iot, escrowId) ==
  LET interval == iot.simulationIntervals[escrowId]
      cleared == IF interval # 0
                 THEN [iot EXCEPT !.intervals[interval].running = FALSE,
                                  !.simulationIntervals[escrowId] = 0]
                 ELSE iot
      delivery == iot.activeDeliveries[escrowId]
  IN  IF delivery # 0
      THEN [cleared EXCEPT !.deliveries[delivery].status = "stopped"]
      ELSE cleared

\* startDeliverySimulation(escrowId, {destinationGPS, minTemp, maxTemp, duration})
\* with the default origin: the new delivery object goes into activeDeliveries
\* and its timer into simulationIntervals, over whatever the maps held
startDeliverySimulation(iot, escrowId, destinationGPS, minTemp, maxTemp, duration) ==
  LET delivery ==
        [escrowId |-> escrowId, origin |-> OriginGPS, destination |-> destinationGPS,
         currentGPS |-> OriginGPS,
         temperature |-> Num(minTemp.value + (maxTemp.value - minTemp.value) \div 2),
         minTemp |-> minTemp, maxTemp |-> maxTemp, duration |-> duration,
         progress |-> Fraction(0, 1), status |-> "in_transit"]
      interval == [stepCount |-> 0, steps |-> duration \div TickMs, running |-> TRUE]
      handle == Len(iot.deliveries) + 1
  IN  [iot EXCEPT !.deliveries = Append(@, delivery),
                  !.intervals = Append(@, interval),
                  !.activeDeliveries[escrowId] = handle,
                  !.simulationIntervals[escrowId] = handle]

\* the callback of the timer `handle`, variation the random part of the
\* temperature
tick(iot, handle, variation) ==
  LET stepCount == iot.intervals[handle].stepCount + 1
      steps == iot.intervals[handle].steps
      delivery == iot.deliveries[handle]
      progress == MinOne(Fraction(stepCount, steps))
      baseTemp == Num(delivery.minTemp.value
                      + (delivery.maxTemp.value - delivery.minTemp.value) \div 2)
      moved == [delivery EXCEPT
                  !.currentGPS =
                     [latitude |-> Along(delivery.origin.latitude,
                                         delivery.destination.latitude, stepCount, steps),
                      longitude |-> Along(delivery.origin.longitude,
                                          delivery.destination.longitude, stepCount, steps)],
                  !.temperature = Clamp(delivery.minTemp, delivery.maxTemp,
                                        Num(baseTemp.value + variation)),
                  !.progress = progress]
      ticked == [iot EXCEPT !.deliveries[handle] = moved,
                            !.intervals[handle].stepCount = stepCount]
  IN  IF ~FractionLess(progress, Fraction(1, 1))
      THEN stopDeliverySimulation(
             [ticked EXCEPT !.deliveries[handle].status = "delivered",
                            !.deliveries[handle].currentGPS = delivery.destination],
             delivery.escrowId)
      ELSE ticked

\* getCurrentData: found = FALSE is the null it returns for an unknown id
getCurrentData(iot, escrowId) ==
  IF iot.activeDeliveries[escrowId] = 0
  THEN [found |-> FALSE, gps |-> OriginGPS, temperature |-> Undefined,
        progress |-> Fraction(0, 1), status |-> ""]
  ELSE LET delivery == iot.deliveries[iot.activeDeliveries[escrowId]]
       IN  [found |-> TRUE, gps |-> delivery.currentGPS,
            temperature |-> delivery.temperature,
            progress |-> delivery.progress, status |-> delivery.status]

clearDelivery(iot, escrowId) ==
  [stopDeliverySimulation(iot, escrowId) EXCEPT !.activeDeliveries[escrowId] = 0]

-----------------------------------------------------------------------------
(* The oracle service: services/iotService.js *)

\* a reading: what fetchIoTData returns
Reading(gps, temperature, humidity, pressure, sensorId) ==
  [gps |-> gps, temperature |-> temperature, humidity |-> humidity,
   pressure |-> pressure, sensorId |-> sensorId]

\* the map holds no reading at the key
NoReading == Reading(OriginGPS, Undefined, Undefined, Undefined, "")

\* v || d
OrElse(v, d) == IF v = Undefined \/ v = NaN \/ v = Num(0) THEN d ELSE v

\* validateIoTResponse: threw = TRUE is the Error it throws
validateIoTResponse(data) ==
  IF \/ ~data.object
     \/ ~data.hasGps
     \/ typeof(data.gps.latitude) # "number"
     \/ typeof(data.gps.longitude) # "number"
     \/ typeof(data.temperature) # "number"
     \/ typeof(data.humidity) # "number"
     \/ typeof(data.pressure) # "number"
  THEN [threw |-> TRUE, reading |-> NoReading]
  ELSE [threw |-> FALSE,
        reading |-> Reading([latitude |-> data.gps.latitude,
                             longitude |-> data.gps.longitude],
                            data.temperature, data.humidity, data.pressure,
                            IF data.sensorId = "" THEN "unknown" ELSE data.sensorId)]

\* generateMockData: random is Math.random() of each of the five calls, in
\* hundredths; half a thousandth of a degree is 55 metres of the grid
generateMockData(random) ==
  Reading(Position(DestinationLatitude + ((random[1] - 50) * 110) \div 100,
                   DestinationLongitude + ((random[2] - 50) * 110) \div 100),
          Num(2000 + random[3] * 10),
          Num(4000 + random[4] * 30),
          Num(100000 + random[5] * 30),
          "mock-sensor-001")

setMockData(iot, escrowId, data) ==
  [iot EXCEPT !.mockData[escrowId] =
     Reading(data.gps, data.temperature,
             OrElse(data.humidity, Num(5000)),
             OrElse(data.pressure, Num(101300)),
             IF data.sensorId = "" THEN "mock-sensor" ELSE data.sensorId)]

\* the answer of the external endpoint: after `latency` milliseconds, with a
\* 2xx status or not, carrying `data`; axios gives up after API_TIMEOUT
Arrives(response) == response.latency < API_TIMEOUT /\ response.ok

\* fetchIoTData taking the endpoint's answer as it comes
fetchIoTData_Unchecked(iot, escrowId, response, random) ==
  LET dummyData == getCurrentData(iot, escrowId)
      waited == IF response.latency < API_TIMEOUT THEN response.latency ELSE API_TIMEOUT
  IN  IF dummyData.found
      THEN [tier |-> "simulation", waited |-> 0,
            reading |-> Reading(dummyData.gps, dummyData.temperature,
                                Undefined, Undefined, "sensor")]
      ELSE IF Arrives(response)
      THEN [tier |-> "api", waited |-> waited,
            reading |-> Reading(response.data.gps, response.data.temperature,
                                response.data.humidity, response.data.pressure,
                                response.data.sensorId)]
      ELSE IF iot.mockData[escrowId] # NoReading
      THEN [tier |-> "mock", waited |-> waited, reading |-> iot.mockData[escrowId]]
      ELSE [tier |-> "random", waited |-> waited, reading |-> generateMockData(random)]

\* fetchIoTData: the reading, the branch that returned it and the time spent
\* waiting for the endpoint
fetchIoTData(iot, escrowId, response, random) ==
  LET dummyData == getCurrentData(iot, escrowId)
      waited == IF response.latency < API_TIMEOUT THEN response.latency ELSE API_TIMEOUT
      checked == validateIoTResponse(response.data)
  IN  IF dummyData.found
      THEN [tier |-> "simulation", waited |-> 0,
            reading |-> Reading(dummyData.gps, dummyData.temperature,
                                Undefined, Undefined, "sensor")]
      ELSE IF Arrives(response) /\ ~checked.threw
      THEN [tier |-> "api", waited |-> waited, reading |-> checked.reading]
      ELSE IF iot.mockData[escrowId] # NoReading
      THEN [tier |-> "mock", waited |-> waited, reading |-> iot.mockData[escrowId]]
      ELSE [tier |-> "random", waited |-> waited, reading |-> generateMockData(random)]

-----------------------------------------------------------------------------
(* The oracle service: services/blockchainService.js *)

\* the whole number n as a JavaScript number
Whole(n) == Num(n * 100)

\* verifyDelivery as the contract declares it, and as the service's ABI
\* (config/contractConfig.js) declares it
ContractVerifyDelivery == "verifyDelivery(uint256,string,int256,int256,int256,bool,bool,bool,bool)"
AbiVerifyDelivery == "verifyDelivery(uint256,string,int256,bool,bool)"

\* the account of the service's wallet
Wallet == Oracle

\* getEscrow: the fields of the contract's record as ethers hands them over,
\* every integer a bigint; threw: the call reverted (escrowExists)
getEscrow(s, escrowId) ==
  [threw |-> ~escrowExists(s, escrowId),
   destinationGPS |-> escrowAt(s, escrowId).destinationGPS,
   minTemperature |-> BigInt(escrowAt(s, escrowId).minTemperature),
   maxTemperature |-> BigInt(escrowAt(s, escrowId).maxTemperature),
   status |-> BigInt(escrowAt(s, escrowId).status),
   verified |-> escrowAt(s, escrowId).verified]

\* a transaction to the contract naming a function by its signature: the
\* contract has no fallback function, a signature it does not declare reverts
transact(s, sender, signature, id, gps, temperature, checks) ==
  IF signature = ContractVerifyDelivery
  THEN verifyDelivery(s, sender, id, gps, temperature, 0, 0, checks)
  ELSE Revert(s)

\* submitVerification: contract.verifyDelivery with the five arguments of the
\* ABI; threw: the transaction reverted
submitVerification(s, escrowId, currentGPS, temperature, gpsMatched, temperatureValid) ==
  LET r == transact(s, Wallet, AbiVerifyDelivery, escrowId, currentGPS, temperature,
                    <<gpsMatched, temperatureValid, FALSE, FALSE>>)
  IN  [threw |-> ~r.ok, st |-> r.st]

\* what processVerificationRequest returns when it stops before validating
NoValidation ==
  [gpsMatched |-> FALSE, gpsDistance |-> NaN, temperatureValid |-> FALSE,
   temperatureDelta |-> NaN, verified |-> FALSE]

\* the outcome of processVerificationRequest: what it returned (marker), the
\* verifyDelivery calls it handed to the contract, the booleans it put into
\* them, whether it threw, and the chain after it
Outcome(marker, currentStatus, validation, calls, threw, st) ==
  [marker |-> marker, currentStatus |-> currentStatus, validation |-> validation,
   calls |-> calls, threw |-> threw, st |-> st]

\* processVerificationRequest(escrowId); iotData is the reading fetchIoTData
\* returns once the wait for the simulation (ten seconds at most) is over
processVerificationRequest(s, escrowId, iotData) ==
  LET escrow == getEscrow(s, escrowId)
      validation == validateDelivery(iotData, escrow.destinationGPS,
                                     Number(escrow.minTemperature),
                                     Number(escrow.maxTemperature))
      submitted == submitVerification(s, escrowId, iotData.gps,
                                      RoundTimes100(iotData.temperature),
                                      validation.gpsMatched, validation.temperatureValid)
  IN  IF escrow.threw
      THEN Outcome("threw", BigInt(0), NoValidation, 0, TRUE, s)
      ELSE IF escrow.verified
      THEN Outcome("alreadyVerified", escrow.status, NoValidation, 0, FALSE, s)
      ELSE IF ~StrictEquals(escrow.status, Whole(3))
      THEN Outcome("statusNotReady", escrow.status, NoValidation, 0, FALSE, s)
      ELSE Outcome("validation", escrow.status, validation, 1, submitted.threw, submitted.st)

\* the wait for the delivery simulation: the number of polls and their sleep
PollLimit == 10
PollMs == 1000

\* what getCurrentData shows of the simulation's status at the check before
\* the loop (views[1]) and after each sleep (views[i + 1]); "" is no delivery
awaitSimulation(views) ==
  IF views[1] = "delivered"
  THEN [polls |-> 0, waited |-> 0]
  ELSE LET hits == {i \in 1 .. PollLimit : views[i + 1] = "delivered"}
           polls == IF hits = {} THEN PollLimit
                    ELSE CHOOSE i \in hits : \A j \in hits : i <= j
       IN  [polls |-> polls, waited |-> polls * PollMs]

\* processVerificationRequest step by step: the polls of its wait, whether it
\* went on to fetchIoTData, and its outcome
processVerificationSteps(s, escrowId, views, iotData) ==
  LET r == processVerificationRequest(s, escrowId, iotData)
      w == awaitSimulation(views)
  IN  IF r.marker = "validation"
      THEN [polls |-> w.polls, waited |-> w.waited, fetched |-> TRUE, outcome |-> r]
      ELSE [polls |-> 0, waited |-> 0, fetched |-> FALSE, outcome |-> r]

\* the handler of the DeliveryMarked event: it writes to the log
onDeliveryMarked == NoCall

\* POST /verify/:escrowId: the handler reads nothing of the request but the
\* id; threw says whether processVerificationRequest threw
postVerify(db, t, token, threw) ==
  [status |-> IF threw THEN 500 ELSE 200, call |-> "processVerificationRequest"]

-----------------------------------------------------------------------------
(* The state machine *)

Init ==
  /\ owner = Owner
  /\ oracle = Oracle
  /\ escrowCounter = 0
  /\ escrows = <<>>
  /\ verifications = <<>>
  /\ userEscrows = [a \in Accounts |-> <<>>]
  /\ balance = [a \in Accounts |-> IF a \in Users THEN InitialBalance ELSE 0]
  /\ now = 0
  /\ creations = 0
  /\ issued = {}
  /\ passed = {}
  /\ adminCompleted = {}
  /\ held = [id \in 1 .. MaxPoolEscrows |-> 0]
  /\ users = initializeDefaultUsers(EmptyDb).users
  /\ sessions = <<>>
  /\ nextToken = 0
  /\ clock = Instant(0, 0)
  /\ lastCall = NoCall
  /\ deliveries = <<>>
  /\ intervals = <<>>
  /\ activeDeliveries = [k \in EscrowKeys |-> 0]
  /\ simulationIntervals = [k \in EscrowKeys |-> 0]
  /\ mockData = [k \in EscrowKeys |-> NoReading]
  /\ fetchedData = NoReading
  /\ validationResult = NoChecks
  /\ pending = <<>>
  /\ answered = <<>>

\* the chain state after a call: the call's result state (the state before it on revert)
Commit(r) ==
  /\ owner' = r.st.owner
  /\ oracle' = r.st.oracle
  /\ escrowCounter' = r.st.escrowCounter
  /\ escrows' = r.st.escrows
  /\ verifications' = r.st.verifications
  /\ userEscrows' = r.st.userEscrows
  /\ balance' = r.st.balance
  /\ now' = r.st.now
  /\ UNCHANGED <<serviceVars, iotVars, validatorVars, registerVars>>

\* a later block
Tick ==
  /\ now < MaxTime
  /\ now' = now + 1
  /\ UNCHANGED <<owner, oracle, escrowCounter, escrows, verifications, userEscrows, balance>>
  /\ UNCHANGED ghostVars
  /\ UNCHANGED <<serviceVars, iotVars, validatorVars, registerVars>>

(* A transaction that reverts leaves the chain as it was: such a call is a   *)
(* stuttering step, so each action below is the call that does not revert.  *)

CreateEscrow ==
  \E i \in CreateInputs :
    LET r == createEscrow(Chain, i[1], i[2], i[3], i[4], i[5], i[6], i[7], i[8], i[9], now + i[10])
    IN  /\ r.ok
        /\ creations < MaxCreates
        /\ escrowCounter < MaxEscrows
        /\ Commit(r)
        /\ creations' = creations + 1
        /\ issued' = issued \cup {r.ret}
        /\ passed' = passed \ {r.ret}
        /\ adminCompleted' = adminCompleted \ {r.ret}
        /\ UNCHANGED held

SetPriceAndApprove ==
  \E sender \in Users, id \in IdInputs, amount \in AmountInputs :
    LET r == setPriceAndApprove(Chain, sender, id, amount)
    IN  r.ok /\ Commit(r) /\ UNCHANGED ghostVars

RejectPrice ==
  \E sender \in Users, id \in IdInputs :
    LET r == rejectPrice(Chain, sender, id)
    IN  r.ok /\ Commit(r) /\ UNCHANGED ghostVars

FundEscrow ==
  \E sender \in Users, id \in IdInputs, value \in ValueInputs :
    LET r == fundEscrow(Chain, sender, id, value)
    IN  r.ok /\ Commit(r) /\ UNCHANGED ghostVars

\* approveEscrow reverts whoever calls it: the step it takes changes nothing
ApproveEscrow ==
  \E sender \in Users, id \in IdInputs :
    LET r == approveEscrow(Chain, sender, id)
    IN  Commit(r) /\ UNCHANGED ghostVars

StartDelivery ==
  \E sender \in Users, id \in IdInputs :
    LET r == startDelivery(Chain, sender, id)
    IN  r.ok /\ Commit(r) /\ UNCHANGED ghostVars

MarkDelivered ==
  \E sender \in Users, id \in IdInputs :
    LET r == markDelivered(Chain, sender, id)
    IN  r.ok /\ Commit(r) /\ UNCHANGED ghostVars

RequestVerification ==
  \E sender \in Users, id \in IdInputs :
    LET r == requestVerification(Chain, sender, id)
    IN  r.ok /\ Commit(r) /\ UNCHANGED ghostVars

VerifyDelivery ==
  \E sender \in Users, id \in IdInputs, checks \in CheckInputs :
    LET r == verifyDelivery(Chain, sender, id, ReadingGPS, ReadingValue,
                            ReadingValue, ReadingValue, checks)
    IN  /\ r.ok
        /\ Commit(r)
        /\ passed' = IF checks = <<TRUE, TRUE, TRUE, TRUE>>
                     THEN passed \cup {id} ELSE passed
        /\ UNCHANGED <<creations, issued, adminCompleted, held>>

Refund ==
  \E sender \in Users, id \in IdInputs :
    LET r == refund(Chain, sender, id)
    IN  r.ok /\ Commit(r) /\ UNCHANGED ghostVars

SetOracle ==
  \E sender \in Users, newOracle \in OracleInputs :
    LET r == setOracle(Chain, sender, newOracle)
    IN  r.ok /\ Commit(r) /\ UNCHANGED ghostVars

ResetEscrowCounter ==
  \E sender \in Users :
    LET r == resetEscrowCounter(Chain, sender)
    IN  r.ok /\ Commit(r) /\ UNCHANGED ghostVars

ClearUserEscrows ==
  \E sender \in Users, user \in ClearInputs :
    LET r == clearUserEscrows(Chain, sender, user)
    IN  r.ok /\ Commit(r) /\ UNCHANGED ghostVars

ClearAllUserEscrows ==
  \E sender \in Users :
    LET r == clearAllUserEscrows(Chain, sender)
    IN  r.ok /\ Commit(r) /\ UNCHANGED ghostVars

AdminUpdateStatus ==
  \E sender \in Users, id \in IdInputs, newStatus \in EscrowStatus :
    LET r == adminUpdateStatus(Chain, sender, id, newStatus)
    IN  /\ r.ok
        /\ Commit(r)
        /\ adminCompleted' =
             IF newStatus = Completed /\ escrowAt(Chain, id).status # Completed
             THEN adminCompleted \cup {id} ELSE adminCompleted
        /\ UNCHANGED <<creations, issued, passed, held>>

Next ==
  \/ Tick
  \/ CreateEscrow
  \/ SetPriceAndApprove
  \/ RejectPrice
  \/ FundEscrow
  \/ ApproveEscrow
  \/ StartDelivery
  \/ MarkDelivered
  \/ RequestVerification
  \/ VerifyDelivery
  \/ Refund
  \/ SetOracle
  \/ ResetEscrowCounter
  \/ ClearUserEscrows
  \/ ClearAllUserEscrows
  \/ AdminUpdateStatus

Spec == Init /\ [][Next]_vars

-----------------------------------------------------------------------------
(* The backend service as a state machine: the database file outlives the   *)
(* process, requests arrive in any order, the clock moves on.  A request    *)
(* that is refused changes nothing: each action is the request served.      *)

\* what requests carry
UsernameInputs == {"admin", "shipper", "alice"}
EmailOf(username) ==
  IF username = "admin" THEN "admin@example.com"
  ELSE IF username = "shipper" THEN "shipper@example.com"
  ELSE "alice@example.com"
PasswordInputs == {defaultPassword, "short"}
RoleInputs == {"shipper", "logistics", "admin", "Shipper", ""}
WalletInputs ==
  {Address(k, c) : k \in {AdminKey, OtherKey}, c \in {"checksum", "lower"}}
    \cup {NotAnAddress}
SignatureInputs == {Signature(AdminKey), Signature(OtherKey), MalformedSignature}
TokenInputs == 0 .. MaxTokens

RegisterRequest(username, password, role, walletAddress, signature) ==
  [username |-> username, email |-> EmailOf(username), password |-> password,
   role |-> role, walletAddress |-> walletAddress, signature |-> signature]
RegisterInputs ==
  {RegisterRequest(u, p, r, w, s) :
     u \in {"admin", "alice"}, p \in PasswordInputs, r \in RoleInputs,
     w \in WalletInputs, s \in SignatureInputs}
WalletRequest(walletAddress, signature) ==
  [walletAddress |-> walletAddress, signature |-> signature]
WalletRequests ==
  {WalletRequest(w, s) : w \in WalletInputs, s \in SignatureInputs}
StatusInputs == EscrowStatus \cup {NoStatus}

\* the database after a request
Save(db) ==
  /\ users' = db.users
  /\ sessions' = db.sessions
  /\ nextToken' = db.nextToken

AdvanceClock ==
  /\ clock.day <= MaxDay
  /\ clock' = IF clock.sec + 1 < DayLen
              THEN Instant(clock.day, clock.sec + 1)
              ELSE Instant(clock.day + 1, 0)
  /\ UNCHANGED <<users, sessions, nextToken, lastCall>>
  /\ UNCHANGED <<chainVars, ghostVars, iotVars, validatorVars, registerVars>>

\* the process starts again on the database it left
Restart ==
  /\ Save(initializeDefaultUsers(Db))
  /\ UNCHANGED <<clock, lastCall>>
  /\ UNCHANGED <<chainVars, ghostVars, iotVars, validatorVars, registerVars>>

\* the hourly setInterval of index.js
Sweep ==
  /\ Save(Session_deleteExpired(Db, clock))
  /\ UNCHANGED <<clock, lastCall>>
  /\ UNCHANGED <<chainVars, ghostVars, iotVars, validatorVars, registerVars>>

PostRegister ==
  \E req \in RegisterInputs :
    LET r == postRegister(Db, req)
    IN  /\ r.status = 201
        /\ Len(users) < MaxUsers
        /\ Save(r.db)
        /\ UNCHANGED <<clock, lastCall>>
        /\ UNCHANGED <<chainVars, ghostVars, iotVars, validatorVars, registerVars>>

PostLogin ==
  \E username \in UsernameInputs, password \in PasswordInputs :
    LET r == postLogin(Db, clock, username, password)
    IN  /\ r.status = 200
        /\ nextToken < MaxTokens
        /\ Save(r.db)
        /\ UNCHANGED <<clock, lastCall>>
        /\ UNCHANGED <<chainVars, ghostVars, iotVars, validatorVars, registerVars>>

GetVerify ==
  \E token \in TokenInputs :
    LET r == getVerify(Db, clock, token)
    IN  /\ r.status = 200
        /\ Save(r.db)
        /\ UNCHANGED <<clock, lastCall>>
        /\ UNCHANGED <<chainVars, ghostVars, iotVars, validatorVars, registerVars>>

GetWallet ==
  \E token \in TokenInputs :
    LET r == getWallet(Db, clock, token)
    IN  /\ r.status = 200
        /\ Save(r.db)
        /\ UNCHANGED <<clock, lastCall>>
        /\ UNCHANGED <<chainVars, ghostVars, iotVars, validatorVars, registerVars>>

PostLogout ==
  \E token \in TokenInputs :
    LET r == postLogout(Db, token)
    IN  /\ token \in DOMAIN sessions
        /\ Save(r.db)
        /\ UNCHANGED <<clock, lastCall>>
        /\ UNCHANGED <<chainVars, ghostVars, iotVars, validatorVars, registerVars>>

PutWallet ==
  \E token \in TokenInputs, req \in WalletRequests :
    LET r == putWallet(Db, clock, token, req)
    IN  /\ r.status = 200
        /\ r.db.nextToken <= MaxTokens
        /\ Save(r.db)
        /\ UNCHANGED <<clock, lastCall>>
        /\ UNCHANGED <<chainVars, ghostVars, iotVars, validatorVars, registerVars>>

\* the status endpoint reads the escrow's status from the chain and calls
\* blockchainService: the status read is an input here, and the call's
\* outcome, which only the response shows, is left to the properties
PutEscrowStatus ==
  \E token \in TokenInputs, targetStatus \in StatusInputs, currentStatus \in EscrowStatus :
    LET r == putEscrowStatus(Db, clock, token, targetStatus, currentStatus, TRUE, TRUE)
    IN  /\ r.call # NoCall
        /\ lastCall' = r.call
        /\ UNCHANGED <<users, sessions, nextToken, clock>>
        /\ UNCHANGED <<chainVars, ghostVars, iotVars, validatorVars, registerVars>>

\* POST /verify/:escrowId starts the verification pipeline
PostVerify ==
  \E token \in TokenInputs :
    LET r == postVerify(Db, clock, token, FALSE)
    IN  /\ lastCall' = r.call
        /\ UNCHANGED <<users, sessions, nextToken, clock>>
        /\ UNCHANGED <<chainVars, ghostVars, iotVars, validatorVars, registerVars>>

ServiceNext ==
  \/ AdvanceClock
  \/ Restart
  \/ Sweep
  \/ PostRegister
  \/ PostLogin
  \/ GetVerify
  \/ GetWallet
  \/ PostLogout
  \/ PutWallet
  \/ PutEscrowStatus
  \/ PostVerify

ServiceSpec == Init /\ [][ServiceNext]_vars

-----------------------------------------------------------------------------
(* POST /register as a state machine of two steps: the handler runs its     *)
(* checks, awaits User.create (which awaits bcrypt.hash), and the insert    *)
(* happens when it is resumed; another request's steps run in between.      *)

\* an address no seeded account holds
FreeKey == "0x15d34AAf54267DB7D7c367839AAf71A00a2C6A65"
\* largest number of registrations waiting for User.create
MaxPending == 2

ConcurrentRegisters ==
  {[username |-> u, email |-> e, password |-> defaultPassword, role |-> "shipper",
    walletAddress |-> Address(k, c), signature |-> Signature(k)] :
     u \in {"alice", "bob"}, e \in {"alice@example.com", "bob@example.com"},
     k \in {OtherKey, FreeKey}, c \in {"checksum", "lower"}}

Without(q, i) == [k \in 1 .. Len(q) - 1 |-> IF k < i THEN q[k] ELSE q[k + 1]]

\* a request passes the checks; the handler awaits User.create
RegisterChecks ==
  \E req \in ConcurrentRegisters :
    /\ Len(pending) + Len(answered) < MaxPending
    /\ postRegister_Checks(Db, req) = NoRow
    /\ pending' = Append(pending, req)
    /\ UNCHANGED answered
    /\ UNCHANGED <<chainVars, ghostVars, serviceVars, iotVars, validatorVars>>

\* a waiting handler is resumed: the INSERT runs and the handler answers
RegisterInsert ==
  \E i \in DOMAIN pending :
    LET r == postRegister_Insert(Db, pending[i])
    IN  /\ Save(r.db)
        /\ pending' = Without(pending, i)
        /\ answered' = Append(answered, [req |-> pending[i], status |-> r.status])
        /\ UNCHANGED <<clock, lastCall>>
        /\ UNCHANGED <<chainVars, ghostVars, iotVars, validatorVars>>

RegisterNext ==
  \/ RegisterChecks
  \/ RegisterInsert

RegisterSpec == Init /\ [][RegisterNext]_vars

-----------------------------------------------------------------------------
(* The sensor services as a state machine: simulations are started, stopped *)
(* and cleared through the routes, their timers fire every TickMs           *)
(* milliseconds in any order, and mock readings are set.                    *)

DurationInputs == {60000, 6000}
\* the random part of the simulated temperature, within (-2.5, 2.5)
VariationInputs == {-200, 200}
\* Math.random() of the five calls of generateMockData, in hundredths
RandomInputs == {<<0, 0, 0, 0, 0>>, <<99, 99, 99, 99, 99>>}
TemperatureInputs == {-100, 0, 2500, 3000, 3100}

\* the body of the endpoint's answer
Data(object, hasGps, gps, temperature, humidity, pressure, sensorId) ==
  [object |-> object, hasGps |-> hasGps, gps |-> gps, temperature |-> temperature,
   humidity |-> humidity, pressure |-> pressure, sensorId |-> sensorId]
GoodData(temperature) ==
  Data(TRUE, TRUE, Position(DestinationLatitude, DestinationLongitude + 100),
       Num(temperature), Num(5000), Num(101300), "sensor-7")
DataInputs ==
  {GoodData(t) : t \in TemperatureInputs}
    \cup { [GoodData(2500) EXCEPT !.sensorId = ""],
           [GoodData(2500) EXCEPT !.gps = Position(DestinationLatitude, DestinationLongitude + 101)],
           [GoodData(2500) EXCEPT !.object = FALSE],
           [GoodData(2500) EXCEPT !.hasGps = FALSE],
           [GoodData(2500) EXCEPT !.gps.latitude = Text],
           [GoodData(2500) EXCEPT !.temperature = Text],
           [GoodData(2500) EXCEPT !.humidity = Undefined],
           [GoodData(2500) EXCEPT !.pressure = Undefined] }
Answer(latency, ok, data) == [latency |-> latency, ok |-> ok, data |-> data]
AnswerInputs ==
  {Answer(100, TRUE, d) : d \in DataInputs}
    \cup {Answer(100, FALSE, GoodData(2500)), Answer(API_TIMEOUT, TRUE, GoodData(2500))}
\* the bodies POST /mock-iot stores
MockInputs ==
  { Data(TRUE, TRUE, Position(DestinationLatitude, DestinationLongitude),
         Num(3100), Undefined, Undefined, "") }

\* the sensor services after a call
Keep(iot) ==
  /\ deliveries' = iot.deliveries
  /\ intervals' = iot.intervals
  /\ activeDeliveries' = iot.activeDeliveries
  /\ simulationIntervals' = iot.simulationIntervals
  /\ mockData' = iot.mockData
  /\ UNCHANGED <<chainVars, ghostVars, serviceVars, validatorVars, registerVars>>

StartDeliverySimulation ==
  \E duration \in DurationInputs :
    /\ Len(deliveries) < MaxStarts
    /\ Keep(startDeliverySimulation(Iot, "1",
                                    Position(DestinationLatitude, DestinationLongitude),
                                    Whole(0), Whole(30), duration))

IntervalFires ==
  \E handle \in 1 .. Len(intervals), variation \in VariationInputs :
    /\ intervals[handle].running
    /\ intervals[handle].stepCount < MaxTicks
    /\ Keep(tick(Iot, handle, variation))

StopDeliverySimulation ==
  /\ activeDeliveries["1"] # 0
  /\ Keep(stopDeliverySimulation(Iot, "1"))

ClearDelivery ==
  /\ activeDeliveries["1"] # 0
  /\ Keep(clearDelivery(Iot, "1"))

\* POST /mock-iot answers 400 to a body without gps or temperature
SetMockData ==
  \E escrowId \in EscrowKeys, data \in MockInputs :
    /\ data.hasGps /\ data.temperature # Undefined
    /\ Keep(setMockData(Iot, escrowId, data))

OracleNext ==
  \/ StartDeliverySimulation
  \/ IntervalFires
  \/ StopDeliverySimulation
  \/ ClearDelivery
  \/ SetMockData

OracleSpec == Init /\ [][OracleNext]_vars

-----------------------------------------------------------------------------
(* The validation of a reading as a state machine: a reading is fetched    *)
(* (no simulation runs, no mock reading is set), then validated against     *)
(* the ranges of an escrow.                                                 *)

\* <<minimum, maximum>> of a range, scaled by 100
BoundInputs == {<<MinBound, MaxBound>>, <<1000, 2500>>, <<90000, 110000>>}

FetchIoTData ==
  \E response \in AnswerInputs, random \in RandomInputs :
    /\ fetchedData' = fetchIoTData(Iot, "1", response, random).reading
    /\ validationResult' = NoChecks
    /\ UNCHANGED <<chainVars, ghostVars, serviceVars, iotVars, registerVars>>

\* the reading validated is the one fetched just before
ValidateDelivery ==
  \E t \in BoundInputs, h \in BoundInputs, p \in BoundInputs :
    /\ fetchedData # NoReading
    /\ validationResult' = ValidatorService_validateDelivery(fetchedData, DestinationGPS,
                        Whole(t[1]), Whole(t[2]), Whole(h[1]), Whole(h[2]),
                        Whole(p[1]), Whole(p[2]))
    /\ UNCHANGED fetchedData
    /\ UNCHANGED <<chainVars, ghostVars, serviceVars, iotVars, registerVars>>

ValidatorNext ==
  \/ FetchIoTData
  \/ ValidateDelivery

ValidatorSpec == Init /\ [][ValidatorNext]_vars

-----------------------------------------------------------------------------
(* The contract with several escrows sharing its balance *)

PoolIds == 0 .. MaxPoolEscrows

\* held after the call with result r for escrow id: what came into the
\* contract's balance is received for it, what left is paid out for it
Booked(r, id) ==
  IF id \in DOMAIN held
  THEN [held EXCEPT ![id] = @ + r.st.balance[This] - balance[This]]
  ELSE held

PoolCreateEscrow ==
  \E i \in CreateInputs :
    LET r == createEscrow(Chain, i[1], i[2], i[3], i[4], i[5], i[6], i[7], i[8], i[9], now + i[10])
    IN  /\ r.ok
        /\ escrowCounter < MaxPoolEscrows
        /\ Commit(r)
        /\ held' = Booked(r, r.ret)
        /\ UNCHANGED <<creations, issued, passed, adminCompleted>>

PoolSetPriceAndApprove ==
  \E sender \in Users, id \in PoolIds, amount \in AmountInputs :
    LET r == setPriceAndApprove(Chain, sender, id, amount)
    IN  /\ r.ok
        /\ Commit(r)
        /\ held' = Booked(r, id)
        /\ UNCHANGED <<creations, issued, passed, adminCompleted>>

PoolRejectPrice ==
  \E sender \in Users, id \in PoolIds :
    LET r == rejectPrice(Chain, sender, id)
    IN  /\ r.ok
        /\ Commit(r)
        /\ held' = Booked(r, id)
        /\ UNCHANGED <<creations, issued, passed, adminCompleted>>

PoolFundEscrow ==
  \E sender \in Users, id \in PoolIds, value \in ValueInputs :
    LET r == fundEscrow(Chain, sender, id, value)
    IN  /\ r.ok
        /\ Commit(r)
        /\ held' = Booked(r, id)
        /\ UNCHANGED <<creations, issued, passed, adminCompleted>>

PoolStartDelivery ==
  \E sender \in Users, id \in PoolIds :
    LET r == startDelivery(Chain, sender, id)
    IN  /\ r.ok
        /\ Commit(r)
        /\ held' = Booked(r, id)
        /\ UNCHANGED <<creations, issued, passed, adminCompleted>>

PoolMarkDelivered ==
  \E sender \in Users, id \in PoolIds :
    LET r == markDelivered(Chain, sender, id)
    IN  /\ r.ok
        /\ Commit(r)
        /\ held' = Booked(r, id)
        /\ UNCHANGED <<creations, issued, passed, adminCompleted>>

PoolVerifyDelivery ==
  \E sender \in Users, id \in PoolIds, checks \in CheckInputs :
    LET r == verifyDelivery(Chain, sender, id, ReadingGPS, ReadingValue,
                            ReadingValue, ReadingValue, checks)
    IN  /\ r.ok
        /\ Commit(r)
        /\ held' = Booked(r, id)
        /\ UNCHANGED <<creations, issued, passed, adminCompleted>>

PoolRefund ==
  \E sender \in Users, id \in PoolIds :
    LET r == refund(Chain, sender, id)
    IN  /\ r.ok
        /\ Commit(r)
        /\ held' = Booked(r, id)
        /\ UNCHANGED <<creations, issued, passed, adminCompleted>>

\* the override, followed until an escrow has paid out more than it received
PoolAdminUpdateStatus ==
  \E sender \in Users, id \in PoolIds, newStatus \in EscrowStatus :
    LET r == adminUpdateStatus(Chain, sender, id, newStatus)
    IN  /\ r.ok
        /\ \A i \in DOMAIN held : held[i] >= 0
        /\ Commit(r)
        /\ held' = Booked(r, id)
        /\ UNCHANGED <<creations, issued, passed, adminCompleted>>

\* the normal state machine only
PoolNext ==
  \/ Tick
  \/ PoolCreateEscrow
  \/ PoolSetPriceAndApprove
  \/ PoolRejectPrice
  \/ PoolFundEscrow
  \/ PoolStartDelivery
  \/ PoolMarkDelivered
  \/ PoolVerifyDelivery
  \/ PoolRefund

PoolSpec == Init /\ [][PoolNext]_vars

\* the normal state machine and the administrative override, within one block
AdminPoolNext ==
  \/ PoolCreateEscrow
  \/ PoolSetPriceAndApprove
  \/ PoolRejectPrice
  \/ PoolFundEscrow
  \/ PoolStartDelivery
  \/ PoolMarkDelivered
  \/ PoolVerifyDelivery
  \/ PoolRefund
  \/ PoolAdminUpdateStatus

AdminPoolSpec == Init /\ [][AdminPoolNext]_vars

-----------------------------------------------------------------------------
(* Properties *)

AllTrue == <<TRUE, TRUE, TRUE, TRUE>>
Terminal == {PriceRejected, Completed, Refunded}
Active == {Funded, InTransit, Delivered}

\* verifyDelivery as the configured oracle calls it with the given sub-results
OracleVerifies(id, checks) ==
  verifyDelivery(Chain, oracle, id, ReadingGPS, ReadingValue, ReadingValue,
                 ReadingValue, checks)

\* the balances of s with amount moved from the contract to an account
Paid(s, to, amount) ==
  [a \in DOMAIN s.balance |->
     IF a = This THEN s.balance[a] - amount
     ELSE IF a = to THEN s.balance[a] + amount
     ELSE s.balance[a]]

\* C1: once an escrow's status is PriceRejected, Completed or Refunded, no
\* step of any operation by any caller changes that status again.
C1_TerminalStatusIsFinal ==
  [][\A id \in DOMAIN escrows :
       escrows[id].status \in Terminal
         => /\ id \in DOMAIN escrows'
            /\ escrows'[id].status = escrows[id].status]_vars

Counterpart(sender) == IF sender = Seller THEN Buyer ELSE Seller
CreateVariants(g) ==
  { g,
    [g EXCEPT ![2] = Zero],
    [g EXCEPT ![2] = g[1]],
    [g EXCEPT ![3] = ""],
    [g EXCEPT ![4] = MaxBound],
    [g EXCEPT ![5] = MinBound],
    [g EXCEPT ![4] = MaxBound, ![5] = MinBound],
    [g EXCEPT ![6] = MaxBound],
    [g EXCEPT ![6] = MaxBound, ![7] = MinBound],
    [g EXCEPT ![8] = MaxBound],
    [g EXCEPT ![8] = MaxBound, ![9] = MinBound] }
CreateCalls ==
  UNION { CreateVariants(<<sender, Counterpart(sender), DestinationGPS, MinBound, MaxBound,
                           MinBound, MaxBound, MinBound, MaxBound, deadline>>) :
          sender \in Users, deadline \in 0 .. MaxTime + 1 }

\* the call c is one the creation property says must fail at block time t
IllFormed(c, t) ==
  \/ c[2] = Zero
  \/ c[2] = c[1]
  \/ c[10] <= t
  \/ c[4] >= c[5]
  \/ c[6] >= c[7]
  \/ c[8] >= c[9]
  \/ c[3] = ""

\* C3: a createEscrow call with a zero seller, seller = caller, deadline <= now,
\* a minimum >= its maximum, or an empty destination fails, and escrowCounter,
\* escrows and every userEscrows list stay as they were.
C3_IllFormedCreateFails ==
  \A c \in CreateCalls :
    LET r == createEscrow(Chain, c[1], c[2], c[3], c[4], c[5], c[6], c[7], c[8], c[9], c[10])
    IN  IllFormed(c, now) =>
          /\ ~r.ok
          /\ r.st.escrowCounter = escrowCounter
          /\ r.st.escrows = escrows
          /\ r.st.userEscrows = userEscrows

\* an escrow is stored and indexed, time has moved on, and a call whose only
\* fault is a deadline equal to the current block time is refused
C3_Witness ==
  /\ escrowCounter = 1
  /\ Len(userEscrows[Buyer]) = 1
  /\ now > 0
  /\ \E c \in CreateCalls :
       /\ c[10] = now
       /\ ~ (c[2] = Zero \/ c[2] = c[1] \/ c[4] >= c[5] \/ c[6] >= c[7] \/ c[8] >= c[9] \/ c[3] = "")
       /\ ~createEscrow(Chain, c[1], c[2], c[3], c[4], c[5], c[6], c[7], c[8], c[9], c[10]).ok

\* C4: fundEscrow succeeds only for the buyer, in PriceProposed, with value =
\* amount, and then the status is Funded and the contract holds amount more; with
\* any other value it fails and status and contract balance stay as they were.
C4_FundEscrowExactPayment ==
  \A sender \in Users, id \in IdInputs, value \in ValueInputs :
    LET e == escrowAt(Chain, id)
        r == fundEscrow(Chain, sender, id, value)
        after == escrowAt(r.st, id)
    IN  /\ r.ok =>
             /\ sender = e.buyer
             /\ e.status = PriceProposed
             /\ value = e.amount
             /\ after.status = Funded
             /\ r.st.balance[This] = balance[This] + e.amount
        /\ value # e.amount =>
             /\ ~r.ok
             /\ after.status = e.status
             /\ r.st.balance[This] = balance[This]

\* the buyer has paid the largest price into the contract, and no other value
\* would have been taken
C4_Witness ==
  \E id \in DOMAIN escrows :
    /\ escrows[id].status = Funded
    /\ escrows[id].amount = MaxAmount
    /\ balance[This] = MaxAmount
    /\ balance[escrows[id].buyer] = InitialBalance - MaxAmount

\* C5: startDelivery and markDelivered fail for every caller other than the
\* escrow's seller, whatever the status, and leave the chain as it was.
C5_OnlySellerDelivers ==
  \A sender \in Users, id \in IdInputs :
    sender # escrowAt(Chain, id).seller =>
      /\ ~startDelivery(Chain, sender, id).ok
      /\ startDelivery(Chain, sender, id).st = Chain
      /\ ~markDelivered(Chain, sender, id).ok
      /\ markDelivered(Chain, sender, id).st = Chain

\* the seller has started a delivery: the seller alone can mark it delivered
C5_Witness ==
  \E id \in DOMAIN escrows :
    /\ escrowExists(Chain, id)
    /\ escrows[id].status = InTransit
    /\ balance[This] = escrows[id].amount
    /\ markDelivered(Chain, escrows[id].seller, id).ok
    /\ \A sender \in Users \ {escrows[id].seller} : ~markDelivered(Chain, sender, id).ok

C7_RepeatedAdminTargetPaysNothing ==
  \A sender \in Users, id \in IdInputs :
    LET e == escrowAt(Chain, id)
    IN  /\ e.status = Completed =>
             adminUpdateStatus(Chain, sender, id, Completed).st.balance = balance
        /\ e.status = Refunded =>
             adminUpdateStatus(Chain, sender, id, Refunded).st.balance = balance

\* a Completed escrow whose amount the contract could pay once more, and the
\* owner's repeated adminUpdateStatus(id, Completed) going through
C7_Witness ==
  \E id \in DOMAIN escrows :
    /\ escrows[id].status = Completed
    /\ escrows[id].amount > 0
    /\ balance[This] >= escrows[id].amount
    /\ adminUpdateStatus(Chain, owner, id, Completed).ok

\* C8: the ids createEscrow has returned are 1, 2, ..., one new id for each
\* successful call: none is returned twice.
C8_IdsNeverReused == issued = 1 .. creations

\* C9 as stated: verified is true only for an escrow for which a
\* verifyDelivery call passed all four sub-checks.
C9_VerifiedOnlyByVerifyDelivery ==
  \A id \in DOMAIN escrows : escrows[id].verified => id \in passed

\* C9 as amended: verified is true only for an escrow for which a
\* verifyDelivery call passed all four sub-checks or which
\* adminUpdateStatus(id, Completed) completed.
C9_VerifiedOnlyByVerifyOrAdminComplete ==
  \A id \in DOMAIN escrows :
    escrows[id].verified => id \in passed \cup adminCompleted

\* an escrow that no verifyDelivery call passed is verified, by the admin's completion
C9_Witness ==
  \E id \in DOMAIN escrows :
    /\ escrows[id].verified
    /\ id \in adminCompleted
    /\ id \notin passed

\* C10 as stated: no escrow ever has status Disputed.
C10_NeverDisputed ==
  \A id \in DOMAIN escrows : escrows[id].status # Disputed

\* C10 as amended: a step that puts an escrow into Disputed is an
\* adminUpdateStatus(id, Disputed) call by the owner or the oracle.
C10_DisputedOnlyByAdmin ==
  [][\A id \in DOMAIN escrows' :
       (escrows'[id].status = Disputed /\ escrowAt(Chain, id).status # Disputed)
         => \E sender \in {owner, oracle} :
              /\ adminUpdateStatus(Chain, sender, id, Disputed).ok
              /\ adminUpdateStatus(Chain, sender, id, Disputed).st = Chain']_vars

\* the admin's override has put an escrow into Disputed
C10_Witness ==
  \E id \in DOMAIN escrows : escrows[id].status = Disputed

Payouts(s, id) ==
  {[tx |-> "verifyDelivery", sender |-> s.oracle]}
    \cup {[tx |-> "refund", sender |-> a] : a \in {escrowAt(s, id).buyer, s.owner, s.oracle}}

\* the result of the transaction p for escrow id in chain state s
Apply(s, id, p) ==
  IF p.tx = "verifyDelivery"
  THEN verifyDelivery(s, p.sender, id, ReadingGPS, ReadingValue, ReadingValue,
                      ReadingValue, AllTrue)
  ELSE refund(s, p.sender, id)

\* C12: of two payout transactions for the same escrow submitted together
\* (verifyDelivery all true and/or refund), in whichever order the chain
\* serializes them, once the first succeeds the second reverts and the amount
\* leaves the contract once.
C12_SecondPayoutReverts ==
  \A id \in IdInputs :
    \A p1 \in Payouts(Chain, id), p2 \in Payouts(Chain, id) :
      LET e == escrowAt(Chain, id)
          r1 == Apply(Chain, id, p1)
          r2 == Apply(r1.st, id, p2)
      IN  r1.ok =>
            /\ ~r2.ok
            /\ r2.st.balance = r1.st.balance
            /\ r2.st.balance[This] = balance[This] - e.amount

\* a delivered escrow past its deadline for which verifyDelivery and the buyer's
\* refund would both succeed, in a contract that holds the amount twice over
C12_Witness ==
  \E id \in DOMAIN escrows :
    /\ escrows[id].status = Delivered
    /\ escrows[id].amount > 0
    /\ balance[This] >= 2 * escrows[id].amount
    /\ OracleVerifies(id, AllTrue).ok
    /\ refund(Chain, escrows[id].buyer, id).ok

C14_AdminUpdateStatusEffects ==
  \A sender \in Users, id \in IdInputs, newStatus \in EscrowStatus :
    LET e == escrowAt(Chain, id)
        r == adminUpdateStatus(Chain, sender, id, newStatus)
        funded == e.amount > 0 /\ balance[This] >= e.amount
    IN  /\ sender \notin {owner, oracle} => (~r.ok /\ r.st = Chain)
        /\ (sender \in {owner, oracle} /\ escrowExists(Chain, id)) =>
             /\ (newStatus = Completed /\ e.status \notin {Completed, Refunded}) =>
                  /\ r.ok = funded
                  /\ ~funded => r.st = Chain
                  /\ funded =>
                       r.st = [Chain EXCEPT !.escrows[id].status = Completed,
                                            !.escrows[id].verified = TRUE,
                                            !.balance = Paid(Chain, e.seller, e.amount)]
             /\ (newStatus = Refunded /\ e.status \notin {Completed, Refunded}) =>
                  /\ r.ok = funded
                  /\ ~funded => r.st = Chain
                  /\ funded =>
                       r.st = [Chain EXCEPT !.escrows[id].status = Refunded,
                                            !.balance = Paid(Chain, e.buyer, e.amount)]
             /\ newStatus \notin {Completed, Refunded} =>
                  /\ r.ok
                  /\ r.st = [Chain EXCEPT !.escrows[id].status = newStatus]

\* the admin completed a funded escrow that no verification had passed: the
\* seller holds the amount and the escrow is verified
C14_Witness ==
  \E id \in DOMAIN escrows :
    /\ id \in adminCompleted \ passed
    /\ escrows[id].status = Completed
    /\ escrows[id].verified
    /\ escrows[id].amount = MaxAmount
    /\ balance[escrows[id].seller] = InitialBalance + MaxAmount
    /\ ~adminUpdateStatus(Chain, Buyer, id, Created).ok

\* the session of token lies in the past at the service's clock
InThePast(token) == Before(InstantOf(sessions[token].expires_at), clock)
\* token resolves to a session not in the past, that of a user with one of these roles
Authorizes(token, roles) ==
  /\ token \in DOMAIN sessions
  /\ ~InThePast(token)
  /\ User_findById(Db, sessions[token].user_id) # NoRow
  /\ User_findById(Db, sessions[token].user_id).role \in roles

\* C15: a session whose expires_at lies in the past is not returned by
\* Session.findByToken and authorizes none of GET /verify, GET /wallet,
\* PUT /wallet and PUT /escrow/:id/status, whether or not the sweep deleted it.
C15_ExpiredSessionNeverAuthorizes ==
  \A token \in DOMAIN sessions :
    InThePast(token) =>
      /\ Session_findByToken(Db, clock, token) = NoRow
      /\ getVerify(Db, clock, token).status = 401
      /\ getWallet(Db, clock, token).status = 401
      /\ \A req \in WalletRequests : putWallet(Db, clock, token, req).status = 401
      /\ \A targetStatus \in StatusInputs, currentStatus \in EscrowStatus :
           putEscrowStatus(Db, clock, token, targetStatus, currentStatus, TRUE, TRUE).status = 401

\* some user other than id holds the wallet address, compared without case
LinkedToOther(id, walletAddress) ==
  \E i \in DOMAIN users :
    i # id /\ toLowerCase(users[i].wallet_address) = toLowerCase(walletAddress)

\* C16: a POST /register or PUT /wallet request naming a wallet address that is,
\* compared without case, linked to a different user is answered 400 and
\* changes no stored wallet_address, creates no user and no session.
C16_TakenWalletRefused ==
  /\ \A req \in RegisterInputs :
       (isAddress(req.walletAddress) /\ LinkedToOther(0, req.walletAddress)) =>
         /\ postRegister(Db, req).status = 400
         /\ postRegister(Db, req).db = Db
  /\ \A token \in DOMAIN sessions, req \in WalletRequests :
       (/\ Session_findByToken(Db, clock, token) # NoRow
        /\ isAddress(req.walletAddress)
        /\ LinkedToOther(sessions[token].user_id, req.walletAddress)) =>
         /\ putWallet(Db, clock, token, req).status = 400
         /\ putWallet(Db, clock, token, req).db = Db

\* C17: no two distinct users have wallet addresses that are equal when
\* compared without case.
C17_WalletsUniqueWithoutCase ==
  \A i \in DOMAIN users, j \in DOMAIN users :
    toLowerCase(users[i].wallet_address) = toLowerCase(users[j].wallet_address) => i = j

\* every admin of database b is a user that was admin in database a
NoNewAdmin(a, b) ==
  \A i \in DOMAIN b.users :
    b.users[i].role = "admin" => (i \in DOMAIN a.users /\ a.users[i].role = "admin")

\* C18: POST /register refuses every role other than exactly 'shipper' or
\* 'logistics' without creating a user, and no register, login, logout or
\* PUT /wallet request creates an admin or makes a user admin.
C18_NoAdminThroughTheApi ==
  /\ \A req \in RegisterInputs :
       /\ req.role \notin {"shipper", "logistics"} =>
            (postRegister(Db, req).status = 400 /\ postRegister(Db, req).db = Db)
       /\ NoNewAdmin(Db, postRegister(Db, req).db)
  /\ \A username \in UsernameInputs, password \in PasswordInputs :
       NoNewAdmin(Db, postLogin(Db, clock, username, password).db)
  /\ \A token \in TokenInputs :
       /\ NoNewAdmin(Db, postLogout(Db, token).db)
       /\ \A req \in WalletRequests : NoNewAdmin(Db, putWallet(Db, clock, token, req).db)

\* a user registered herself and an admin is logged in: the admin of the
\* default accounts is still the only one
C18_Witness ==
  /\ Len(users) = 4
  /\ users[4].role \in {"shipper", "logistics"}
  /\ {i \in DOMAIN users : users[i].role = "admin"} = {1}
  /\ \E token \in DOMAIN sessions :
       /\ sessions[token].user_id = 1
       /\ users[1].wallet_address = Address(OtherKey, "lower")

\* C19: PUT /escrow/:id/status calls the chain only for a token of an unexpired
\* session of an admin: no token is answered 401, an unknown or expired token
\* 401, a valid token of a shipper or logistics user 403, each without a call.
C19_StatusEndpointAdminOnly ==
  \A token \in TokenInputs, targetStatus \in StatusInputs,
     currentStatus \in EscrowStatus, chainOk \in BOOLEAN :
    LET r == putEscrowStatus(Db, clock, token, targetStatus, currentStatus, TRUE, chainOk)
    IN  /\ r.call # NoCall => Authorizes(token, {"admin"})
        /\ token = NoToken => (r.status = 401 /\ r.call = NoCall)
        /\ (token # NoToken /\ ~Authorizes(token, {"admin", "shipper", "logistics"})) =>
             (r.status = 401 /\ r.call = NoCall)
        /\ Authorizes(token, {"shipper", "logistics"}) =>
             (r.status = 403 /\ r.call = NoCall)

\* the call the dispatch is said to make, by the contract's enumeration
ContractDispatch(currentStatus, targetStatus) ==
  IF targetStatus = InTransit /\ currentStatus \in {Created, Funded}
  THEN "adminStartDelivery"
  ELSE IF targetStatus = Delivered /\ currentStatus = InTransit
  THEN "adminMarkDelivered"
  ELSE IF targetStatus = Completed /\ currentStatus = Delivered
  THEN "processVerificationRequest"
  ELSE "adminUpdateStatus"

\* C20: for an admin, the status endpoint calls start-delivery for target
\* InTransit (4) from Created or Funded, mark-delivered for target Delivered (5)
\* from InTransit, the verification pipeline for target Completed (6) from
\* Delivered, and adminUpdateStatus for every other pair.
C20_DispatchByContractStatus ==
  \A token \in DOMAIN sessions :
    Authorizes(token, {"admin"}) =>
      \A currentStatus \in EscrowStatus, targetStatus \in EscrowStatus :
        putEscrowStatus(Db, clock, token, targetStatus, currentStatus, TRUE, TRUE).call
          = ContractDispatch(currentStatus, targetStatus)


-----------------------------------------------------------------------------
(* The verification pipeline *)

\* the readings fetchIoTData hands to the pipeline while no simulation runs
PipelineReadings ==
  {fetchIoTData(Iot, "1", answer, random).reading :
     answer \in AnswerInputs, random \in RandomInputs}

\* C21: processVerificationRequest returns alreadyVerified for a verified
\* escrow and statusNotReady, with the current status, for an unverified one
\* whose status is not Delivered, handing no verifyDelivery to the contract in
\* either case; for an unverified escrow in Delivered it goes on to validate
\* the reading and hands one verifyDelivery to the contract.
C21_PreconditionChecks ==
  \A id \in 1 .. escrowCounter, iotData \in PipelineReadings :
    LET r == processVerificationRequest(Chain, id, iotData)
        e == escrowAt(Chain, id)
    IN  /\ e.verified =>
              r.marker = "alreadyVerified" /\ r.calls = 0 /\ r.st = Chain
        /\ (~e.verified /\ e.status # Delivered) =>
              /\ r.marker = "statusNotReady"
              /\ r.currentStatus.value = e.status
              /\ r.calls = 0
              /\ r.st = Chain
        /\ (~e.verified /\ e.status = Delivered) =>
              r.marker = "validation" /\ r.calls = 1

\* C22: the verification pipeline is started by an admin only: the handler of
\* the DeliveryMarked event does not start it, and every POST /verify/:escrowId
\* and PUT /escrow/:escrowId/status request that starts it carries the token
\* of a session, not in the past, of an admin user.
C22_PipelineOnlyByAdmin ==
  /\ onDeliveryMarked # "processVerificationRequest"
  /\ \A token \in TokenInputs, threw \in BOOLEAN :
       postVerify(Db, clock, token, threw).call = "processVerificationRequest" =>
         Authorizes(token, {"admin"})
  /\ \A token \in TokenInputs, targetStatus \in StatusInputs, currentStatus \in EscrowStatus :
       putEscrowStatus(Db, clock, token, targetStatus, currentStatus, TRUE, TRUE).call
           = "processVerificationRequest" =>
         Authorizes(token, {"admin"})

------------------------------------------------------------------------\* C29: for an escrow that passes the precondition checks (it exists, is
\* unverified and in Delivered) processVerificationRequest hands exactly one
\* verifyDelivery to the contract, whether or not the reading validates; the
\* booleans in it are those validateDelivery computes for the fetched reading;
\* and the escrow's funds are released by it only if all of them are true.
C29_SubmitsOnce ==
  \A id \in 1 .. escrowCounter, iotData \in PipelineReadings :
    LET r == processVerificationRequest(Chain, id, iotData)
        e == escrowAt(Chain, id)
        computed == validateDelivery(iotData, e.destinationGPS,
                                     Number(BigInt(e.minTemperature)),
                                     Number(BigInt(e.maxTemperature)))
    IN  (~e.verified /\ e.status = Delivered) =>
          /\ r.calls = 1
          /\ r.validation.gpsMatched = computed.gpsMatched
          /\ r.validation.temperatureValid = computed.temperatureValid
          /\ escrowAt(r.st, id).status = Completed =>
               (r.validation.gpsMatched /\ r.validation.temperatureValid)

-----
(* The sensor services *)

\* the number of steps of a simulation of the default duration
DefaultDuration == 60000
DefaultSteps == 30

\* the timer of the simulation activeDeliveries holds for escrow "1", one of
\* the default duration, fires in this step
DefaultSimulationTicks(h) ==
  /\ activeDeliveries["1"] = h
  /\ deliveries[h].duration = DefaultDuration
  /\ intervals'[h].stepCount = intervals[h].stepCount + 1

\* C23: each tick of a simulation of the default duration raises its progress
\* strictly, to stepCount / 30; with the thirtieth tick the record
\* getCurrentData returns has status 'delivered' and a current GPS equal to
\* the destination; and the record keeps that status in every step that is
\* not a stop, a clear or a new start.
C23_SimulationReachesDelivered ==
  [][ /\ \A h \in DOMAIN intervals :
           DefaultSimulationTicks(h) =>
             /\ intervals'[h].stepCount <= DefaultSteps =>
                  /\ deliveries'[h].progress
                       = MinOne(Fraction(intervals'[h].stepCount, DefaultSteps))
                  /\ FractionLess(deliveries[h].progress, deliveries'[h].progress)
             /\ intervals'[h].stepCount = DefaultSteps =>
                  /\ getCurrentData(Iot, "1")'.status = "delivered"
                  /\ getCurrentData(Iot, "1")'.gps = deliveries[h].destination
      /\ ( /\ getCurrentData(Iot, "1").status = "delivered"
           /\ ~StopDeliverySimulation /\ ~ClearDelivery /\ ~StartDeliverySimulation ) =>
             getCurrentData(Iot, "1")'.status = "delivered"
    ]_vars

\* the shape validateIoTResponse asks for: an object with a numeric position,
\* temperature, humidity and pressure
ValidShape(data) ==
  /\ data.object /\ data.hasGps
  /\ IsNum(data.gps.latitude) /\ IsNum(data.gps.longitude)
  /\ IsNum(data.temperature) /\ IsNum(data.humidity) /\ IsNum(data.pressure)

\* C24: fetchIoTData always returns a reading, after at most API_TIMEOUT
\* milliseconds: the simulation's current reading when a simulation record
\* exists for the id; otherwise the endpoint's answer when it arrives in time
\* with a valid shape; otherwise the mock reading set for the id when there is
\* one; otherwise a synthesized reading.
C24_FetchIoTDataFallback ==
  \A escrowId \in EscrowKeys, answer \in AnswerInputs, random \in RandomInputs :
    LET r == fetchIoTData(Iot, escrowId, answer, random)
        simulation == getCurrentData(Iot, escrowId)
        usable == Arrives(answer) /\ ValidShape(answer.data)
    IN  /\ r.waited <= API_TIMEOUT
        /\ IF simulation.found
           THEN /\ r.tier = "simulation"
                /\ r.reading.gps = simulation.gps
                /\ r.reading.temperature = simulation.temperature
           ELSE IF usable
           THEN /\ r.tier = "api"
                /\ r.reading.gps = answer.data.gps
                /\ r.reading.temperature = answer.data.temperature
                /\ r.reading.humidity = answer.data.humidity
                /\ r.reading.pressure = answer.data.pressure
           ELSE IF mockData[escrowId] # NoReading
           THEN r.tier = "mock" /\ r.reading = mockData[escrowId]
           ELSE r.tier = "random" /\ r.reading = generateMockData(random)

\* a simulation runs for one escrow and a mock reading is set for the other:
\* the first is served its simulation whatever the endpoint answers, the
\* second the endpoint's answer, or its mock reading when the answer is late
C24_Witness ==
  /\ getCurrentData(Iot, "1").found
  /\ mockData["2"] # NoReading
  /\ fetchIoTData(Iot, "1", Answer(100, TRUE, GoodData(2500)), <<0, 0, 0, 0, 0>>).tier
       = "simulation"
  /\ fetchIoTData(Iot, "2", Answer(100, TRUE, GoodData(2500)), <<0, 0, 0, 0, 0>>).tier
       = "api"
  /\ fetchIoTData(Iot, "2", Answer(API_TIMEOUT, TRUE, GoodData(2500)), <<0, 0, 0, 0, 0>>).tier
       = "mock"

-----------------------------------------------------------------------------
(* The validation of a reading *)

\* the verdict on reading against the range <<min, max>>: reading and bounds
\* in hundredths, as the bounds are stored
Within(reading, range) == range[1] <= reading /\ reading <= range[2]
Overshoot(reading, range) ==
  IF reading < range[1] THEN reading - range[1]
  ELSE IF reading > range[2] THEN reading - range[2]
  ELSE 0
Banded(result, reading, range) ==
  /\ result.valid = Within(reading, range)
  /\ result.delta = Num(Overshoot(reading, range))
  /\ result.valid => result.delta = Num(0)

\* C25: validateTemperature, validateHumidity and validatePressure return
\* valid = (min/100 <= r <= max/100), both ends included, and delta = 0 when
\* valid, r - min/100 below the range and r - max/100 above it; with the bounds
\* 0 and 3000, 25.0 is valid, 31.0 has delta +1.0 and -1.0 has delta -1.0; and
\* the validation of the fetched reading carries these verdicts.
C25_Banding ==
  /\ \A reading \in TemperatureInputs \cup {1000, 5000, 101300}, range \in BoundInputs :
       /\ Banded(validateTemperature(Num(reading), Whole(range[1]), Whole(range[2])),
                 reading, range)
       /\ Banded(validateHumidity(Num(reading), Whole(range[1]), Whole(range[2])),
                 reading, range)
       /\ Banded(validatePressure(Num(reading), Whole(range[1]), Whole(range[2])),
                 reading, range)
  /\ validateTemperature(Num(2500), Whole(0), Whole(3000)).valid
  /\ validateTemperature(Num(3100), Whole(0), Whole(3000)).delta = Num(100)
  /\ validateTemperature(Num(-100), Whole(0), Whole(3000)).delta = Num(-100)
  /\ validationResult # NoChecks =>
       \E t \in BoundInputs, h \in BoundInputs, p \in BoundInputs :
         /\ validationResult.temperatureValid = Within(fetchedData.temperature.value, t)
         /\ validationResult.temperatureDelta = Num(Overshoot(fetchedData.temperature.value, t))
         /\ validationResult.humidityValid = Within(fetchedData.humidity.value, h)
         /\ validationResult.humidityDelta = Num(Overshoot(fetchedData.humidity.value, h))
         /\ validationResult.pressureValid = Within(fetchedData.pressure.value, p)
         /\ validationResult.pressureDelta = Num(Overshoot(fetchedData.pressure.value, p))

\* a reading of 31.0 degrees was fetched and validated against 0 .. 3000: out
\* of range by +1.0, its pressure within 90000 .. 110000
C25_Witness ==
  /\ fetchedData.temperature = Num(3100)
  /\ ~validationResult.temperatureValid
  /\ validationResult.temperatureDelta = Num(100)
  /\ validationResult.pressureValid
  /\ validationResult.pressureDelta = Num(0)

-----------------------------------------------------------------------------
(* The backend service: accounts and sessions *)

\* C26: once the startup seeding has run, on an empty database or on an
\* existing one, the accounts admin, shipper and logistics exist and POST
\* /login with each of these usernames and the default password is answered
\* 200 with the token of a new session.
C26_DemoLoginsWork ==
  \A i \in DOMAIN defaultAccounts :
    LET r == postLogin(Db, clock, defaultAccounts[i].username, defaultPassword)
    IN  /\ User_findByUsername(Db, defaultAccounts[i].username) # NoRow
        /\ r.status = 200
        /\ r.token # NoToken
        /\ r.token \in DOMAIN r.db.sessions
        /\ r.token \notin DOMAIN sessions

\* C27: POST /logout is answered 200 for every bearer token; it removes the
\* session of that token if there is one and no other session, and changes no
\* user; a second logout with the same token is answered 200 and changes
\* nothing; afterwards GET /verify with the token is answered 401.
C27_Logout ==
  \A token \in TokenInputs :
    LET r == postLogout(Db, token)
        again == postLogout(r.db, token)
    IN  /\ r.status = 200
        /\ r.db.users = users
        /\ r.db.nextToken = nextToken
        /\ DOMAIN r.db.sessions = DOMAIN sessions \ {token}
        /\ \A other \in DOMAIN r.db.sessions : r.db.sessions[other] = sessions[other]
        /\ again.status = 200
        /\ again.db = r.db
        /\ getVerify(r.db, clock, token).status = 401

\* on the first day, when no session has expired yet: the first token has
\* been logged out and the second session, of the same user, still
\* authorizes GET /verify
C27_Witness ==
  /\ clock.day = 0
  /\ nextToken = 2
  /\ DOMAIN sessions = {2}
  /\ getVerify(Db, clock, 2).status = 200
  /\ getVerify(Db, clock, 1).status = 401
  /\ \E username \in UsernameInputs :
       /\ User_findByUsername(Db, username).id = sessions[2].user_id
       /\ postLogin(Db, clock, username, defaultPassword).status = 200

\* what PUT /wallet does with request req of the caller holding token on
\* database db: a no-op success for the caller's own address, the lower-case
\* address and a new session for an address nobody is linked to
PutWalletAnswers(db, token, req) ==
  LET session == Session_findByToken(db, clock, token)
      user == User_findById(db, session.user_id)
      r == putWallet(db, clock, token, req)
  IN  (session # NoRow /\ isAddress(req.walletAddress)) =>
        /\ toLowerCase(user.wallet_address) = toLowerCase(req.walletAddress) =>
             /\ r.status = 200
             /\ r.token = NoToken
             /\ r.db = db
        /\ (/\ User_findByWalletAddress(db, req.walletAddress) = NoRow
            /\ req.signature.wellFormed
            /\ toLowerCase(verifyMessage(req.signature)) = toLowerCase(req.walletAddress)) =>
             /\ r.status = 200
             /\ r.db.users =
                  [db.users EXCEPT ![user.id].wallet_address = toLowerCase(req.walletAddress)]
             /\ r.token \notin DOMAIN db.sessions
             /\ r.token = db.nextToken + 1
             /\ DOMAIN r.db.sessions = DOMAIN db.sessions \cup {r.token}
             /\ \A other \in DOMAIN db.sessions : r.db.sessions[other] = db.sessions[other]
             /\ r.db.sessions[r.token].user_id = user.id
             /\ toLowerCase(r.db.sessions[r.token].wallet_address)
                  = toLowerCase(req.walletAddress)
             /\ getVerify(r.db, clock, r.token).status = 200

\* C28: PUT /wallet by a logged-in caller with an address equal, compared
\* without case, to the caller's own stored address is answered 200 whatever
\* the signature says and changes no user and no session; with an address no
\* user is linked to and a signature of that address's key it is answered 200,
\* stores the address in lower case on the caller's user and returns the token
\* of a new session of the caller that carries the new address.  The caller
\* holds a session of the table or the one a login has just returned.
C28_PutWallet ==
  \A req \in WalletRequests :
    /\ \A token \in DOMAIN sessions : PutWalletAnswers(Db, token, req)
    /\ \A username \in UsernameInputs :
         LET login == postLogin(Db, clock, username, defaultPassword)
         IN  login.status = 200 => PutWalletAnswers(login.db, login.token, req)

-----------------------------------------------------------------------------
(* The contract: a failed verification *)

\* the checks with at least one false boolean
FailedChecks == AllChecks \ {AllTrue}

\* a second reading, to tell one record from the next
OtherGPS == "0,0"
OtherValue == ReadingValue + 500

\* the VerificationData a verifyDelivery call in chain state s writes
Recorded(s, gps, value, checks) ==
  [currentGPS |-> gps, temperature |-> value, humidity |-> value, pressure |-> value,
   timestamp |-> s.now, gpsMatched |-> checks[1], temperatureValid |-> checks[2],
   humidityValid |-> checks[3], pressureValid |-> checks[4]]

\* a failed verifyDelivery by the oracle, a second failed one with another
\* reading, then one with all booleans true and that one once more
Attempts(id, checks, again) ==
  LET failed == verifyDelivery(Chain, oracle, id, ReadingGPS, ReadingValue,
                               ReadingValue, ReadingValue, checks)
      second == verifyDelivery(failed.st, oracle, id, OtherGPS, OtherValue,
                               OtherValue, OtherValue, again)
      passing == verifyDelivery(second.st, oracle, id, ReadingGPS, ReadingValue,
                                ReadingValue, ReadingValue, AllTrue)
      repeated == verifyDelivery(passing.st, oracle, id, ReadingGPS, ReadingValue,
                                 ReadingValue, ReadingValue, AllTrue)
  IN  [failed |-> failed, second |-> second, passing |-> passing, repeated |-> repeated]

\* both failed attempts succeed as calls, leave the escrow in Delivered and
\* unverified and the balances alone, and each puts its own record in the
\* place of the escrow's VerificationData
StaysRetriable(id, checks, again) ==
  LET a == Attempts(id, checks, again)
  IN  /\ a.failed.ok
      /\ escrowAt(a.failed.st, id).status = Delivered
      /\ ~escrowAt(a.failed.st, id).verified
      /\ a.failed.st.balance = balance
      /\ a.failed.st.verifications
           = Store(verifications, id, Recorded(Chain, ReadingGPS, ReadingValue, checks))
      /\ a.second.ok
      /\ escrowAt(a.second.st, id).status = Delivered
      /\ ~escrowAt(a.second.st, id).verified
      /\ a.second.st.balance = balance
      /\ a.second.st.verifications
           = Store(verifications, id, Recorded(Chain, OtherGPS, OtherValue, again))

\* the attempt with all booleans true completes the escrow and moves its
\* amount to the seller, and a further one reverts
PaysOnce(id, checks, again) ==
  LET a == Attempts(id, checks, again)
  IN  /\ a.passing.ok
      /\ escrowAt(a.passing.st, id).status = Completed
      /\ escrowAt(a.passing.st, id).verified
      /\ a.passing.st.balance = Send(Chain, escrows[id].seller, escrows[id].amount).balance
      /\ ~a.repeated.ok
      /\ a.repeated.st = a.passing.st

\* C30 as stated: for an unverified escrow in Delivered, whatever
\* verifications failed before, verifyDelivery calls with at least one false
\* boolean leave it in Delivered with verified = false, each replacing the
\* escrow's one VerificationData record, and a verifyDelivery with all four
\* booleans true after them succeeds and pays the seller once.
C30_FailedVerificationRetriable ==
  \A id \in DOMAIN escrows, checks \in FailedChecks, again \in FailedChecks :
    (escrowExists(Chain, id) /\ escrows[id].status = Delivered /\ ~escrows[id].verified) =>
      /\ StaysRetriable(id, checks, again)
      /\ PaysOnce(id, checks, again)

\* C30: for an unverified escrow in Delivered, whatever verifications failed
\* before, verifyDelivery calls with at least one false boolean leave it in
\* Delivered with verified = false, each replacing the escrow's one
\* VerificationData record; a verifyDelivery with all four booleans true
\* after them succeeds and pays the seller once if the contract's balance
\* covers the escrow's amount, and otherwise reverts and leaves the escrow
\* as the failed attempts left it.
C30_RetriableWhileFunded ==
  \A id \in DOMAIN escrows, checks \in FailedChecks, again \in FailedChecks :
    (escrowExists(Chain, id) /\ escrows[id].status = Delivered /\ ~escrows[id].verified) =>
      /\ StaysRetriable(id, checks, again)
      /\ IF CanSend(Chain, escrows[id].seller, escrows[id].amount)
         THEN PaysOnce(id, checks, again)
         ELSE LET a == Attempts(id, checks, again)
              IN  ~a.passing.ok /\ a.passing.st = a.second.st

\* a funded escrow in Delivered whose last verification failed on the GPS
\* check: the next attempt with all booleans true pays the seller
C30_Witness ==
  \E id \in DOMAIN escrows :
    /\ escrows[id].status = Delivered
    /\ ~escrows[id].verified
    /\ escrows[id].amount > 0
    /\ CanSend(Chain, escrows[id].seller, escrows[id].amount)
    /\ id \in DOMAIN verifications
    /\ ~verifications[id].gpsMatched
    /\ OracleVerifies(id, AllTrue).ok
    /\ OracleVerifies(id, AllTrue).st.balance[escrows[id].seller]
         = balance[escrows[id].seller] + escrows[id].amount

-----------------------------------------------------------------------------
(* The pipeline's wait for the simulation *)

\* the simulation's status as the polls see it: 'delivered' from the k-th
\* look on (never, for k beyond the last poll), 'in_transit' before
Views(k) == [j \in 1 .. PollLimit + 1 |-> IF j >= k THEN "delivered" ELSE "in_transit"]

\* C31: for an escrow that passes the precondition checks,
\* processVerificationRequest polls the simulation at most ten times, one
\* second apart, stopping at the first poll that shows 'delivered', and then
\* goes on to fetchIoTData whatever the simulation's status is; it ends with
\* the validation or a thrown error.
C31_BoundedWait ==
  \A id \in 1 .. escrowCounter, iotData \in PipelineReadings, k \in 1 .. PollLimit + 2 :
    LET e == escrowAt(Chain, id)
        p == processVerificationSteps(Chain, id, Views(k), iotData)
    IN  (~e.verified /\ e.status = Delivered) =>
          /\ p.polls <= PollLimit
          /\ p.waited = p.polls * PollMs
          /\ p.polls = IF k <= PollLimit + 1 THEN k - 1 ELSE PollLimit
          /\ p.fetched
          /\ p.outcome.marker = "validation"

-----------------------------------------------------------------------------
(* The contract: the per-address index *)

\* x occurs in the sequence q
Occurs(x, q) == \E i \in DOMAIN q : q[i] = x

\* every id in the list of an address names an escrow the address is
\* buyer or seller of
IndexConsistent(s) ==
  \A a \in DOMAIN s.userEscrows :
    \A i \in DOMAIN s.userEscrows[a] :
      LET e == escrowAt(s, s.userEscrows[a][i])
      IN  e.buyer = a \/ e.seller = a

\* C32: a successful createEscrow puts the new id into the getUserEscrows
\* list of the buyer and of the seller, and in every reachable state, and
\* after every creation from it by any two parties, each id in
\* userEscrows[a] names an escrow whose buyer or seller is a.
C32_IndexConsistent ==
  /\ IndexConsistent(Chain)
  /\ \A sender \in Users, seller \in Users :
       LET r == createEscrow(Chain, sender, seller, DestinationGPS, MinBound, MaxBound,
                             MinBound, MaxBound, MinBound, MaxBound, now + 1)
       IN  r.ok =>
             /\ Occurs(r.ret, r.st.userEscrows[sender])
             /\ Occurs(r.ret, r.st.userEscrows[seller])
             /\ IndexConsistent(r.st)

-----------------------------------------------------------------------------
(* The contract: deposits and payouts *)

RECURSIVE SumActive(_, _)
\* the sum of amount over the escrows 1 .. n of s whose status is in Active
SumActive(s, n) ==
  IF n = 0 THEN 0
  ELSE SumActive(s, n - 1)
         + (IF escrowAt(s, n).status \in Active THEN escrowAt(s, n).amount ELSE 0)

\* C33: under createEscrow, setPriceAndApprove, rejectPrice, fundEscrow,
\* startDelivery, markDelivered, verifyDelivery and refund only, the
\* contract's balance is the sum of amount over the escrows in Funded,
\* InTransit or Delivered.
C33_BalanceIsSumOfActive == balance[This] = SumActive(Chain, escrowCounter)

\* two funded escrows of different amounts, one of them with a failed
\* verification: the contract holds both deposits
C33_Witness ==
  /\ escrowCounter = 2
  /\ escrows[1].status \in Active
  /\ escrows[2].status \in Active
  /\ escrows[1].amount # escrows[2].amount
  /\ balance[This] = escrows[1].amount + escrows[2].amount
  /\ \E id \in DOMAIN verifications : ~verifications[id].gpsMatched

\* C34: with adminUpdateStatus among the operations, what the contract has
\* paid out for an escrow id (to the seller by release or admin completion,
\* to the buyer by refund or admin refund) never exceeds what fundEscrow has
\* received for that id.
C34_NoPayoutBeyondDeposit == \A id \in DOMAIN held : held[id] >= 0

\* C35: in every reachable state, resetEscrowCounter included, for every
\* stored escrow in Funded, InTransit or Delivered with verified = false
\* whose amount (positive) the contract's balance covers, refund(id) called
\* by the owner succeeds, puts the escrow into Refunded and moves the amount
\* to the buyer.
C35_OwnerCanRefund ==
  \A id \in DOMAIN escrows :
    LET e == escrows[id]
        r == refund(Chain, owner, id)
    IN  (/\ e.status \in Active
         /\ ~e.verified
         /\ e.amount > 0
         /\ CanSend(Chain, e.buyer, e.amount)) =>
          /\ r.ok
          /\ escrowAt(r.st, id).status = Refunded
          /\ r.st.balance = Send(Chain, e.buyer, e.amount).balance

-----------------------------------------------------------------------------
(* The contract: what a state-machine call leaves alone *)

\* the records a and b agree on every field but those named
SameBut(a, b, fields) ==
  /\ DOMAIN a = DOMAIN b
  /\ \A f \in DOMAIN a \ fields : a[f] = b[f]

\* the successful call with result r changed, of all escrows, only the named
\* fields of escrow id
ChangesOnly(r, id, fields) ==
  r.ok =>
    /\ DOMAIN r.st.escrows = DOMAIN escrows
    /\ \A j \in DOMAIN escrows :
         IF j = id THEN SameBut(escrows[j], r.st.escrows[j], fields)
         ELSE r.st.escrows[j] = escrows[j]

\* C36: a successful setPriceAndApprove changes only amount and status of the
\* escrow it names; rejectPrice, fundEscrow, startDelivery and markDelivered
\* only its status; requestVerification changes nothing and approveEscrow
\* reverts; the other fields of that escrow and every other escrow stay as
\* they were.
C36_FrameOfStateMachine ==
  \A sender \in Users, id \in PoolIds :
    /\ \A amount \in AmountInputs :
         ChangesOnly(setPriceAndApprove(Chain, sender, id, amount), id, {"amount", "status"})
    /\ ChangesOnly(rejectPrice(Chain, sender, id), id, {"status"})
    /\ \A value \in ValueInputs :
         ChangesOnly(fundEscrow(Chain, sender, id, value), id, {"status"})
    /\ ChangesOnly(startDelivery(Chain, sender, id), id, {"status"})
    /\ ChangesOnly(markDelivered(Chain, sender, id), id, {"status"})
    /\ requestVerification(Chain, sender, id).st = Chain
    /\ ~approveEscrow(Chain, sender, id).ok
    /\ approveEscrow(Chain, sender, id).st = Chain

\* escrow 1 was priced, funded, sent and can be marked delivered by its
\* seller, escrow 2 was priced later and awaits its payment
C36_Witness ==
  /\ escrowCounter = 2
  /\ escrows[1].status = InTransit
  /\ escrows[1].amount = MaxAmount
  /\ markDelivered(Chain, escrows[1].seller, 1).ok
  /\ requestVerification(Chain, escrows[1].buyer, 1).ok
  /\ escrows[2].status = PriceProposed
  /\ escrows[2].createdAt > escrows[1].createdAt
  /\ fundEscrow(Chain, escrows[2].buyer, 2, escrows[2].amount).ok

-----------------------------------------------------------------------------
(* The simulation timers *)

\* the timers of escrow id whose callback still fires
LiveTimers(iot, escrowId) ==
  {h \in 1 .. Len(iot.intervals) :
     iot.intervals[h].running /\ iot.deliveries[h].escrowId = escrowId}

\* C37: at most one simulation timer is live per escrow id, and a tick of a
\* timer other than the one registered for the id, its last one included,
\* leaves the registered simulation's delivery, timer and map entries as they
\* were.
C37_OneTimerPerEscrow ==
  \A escrowId \in EscrowKeys :
    /\ Cardinality(LiveTimers(Iot, escrowId)) <= 1
    /\ \A h \in LiveTimers(Iot, escrowId), variation \in VariationInputs :
         LET later == simulationIntervals[escrowId]
             after == tick(Iot, h, variation)
         IN  (later # 0 /\ h # later) =>
               /\ after.deliveries[later] = deliveries[later]
               /\ after.intervals[later] = intervals[later]
               /\ after.simulationIntervals[escrowId] = later
               /\ after.activeDeliveries[escrowId] = activeDeliveries[escrowId]

-----------------------------------------------------------------------------
(* The backend service: sessions across a wallet update *)

\* the requests PUT /wallet answers with a new session for the caller of token
Updates(token) ==
  {req \in WalletRequests :
     /\ putWallet(Db, clock, token, req).status = 200
     /\ putWallet(Db, clock, token, req).token # NoToken}

\* PUT /wallet with request req leaves every session of the table as it was,
\* and the caller's token and the new one both pass GET /verify afterwards
SessionsSurvive(token, req) ==
  LET r == putWallet(Db, clock, token, req)
  IN  /\ \A old \in DOMAIN sessions :
           /\ old \in DOMAIN r.db.sessions
           /\ r.db.sessions[old] = sessions[old]
           /\ getVerify(r.db, clock, old).status = getVerify(Db, clock, old).status
      /\ r.token \notin DOMAIN sessions
      /\ getVerify(r.db, clock, token).status = 200
      /\ getVerify(r.db, clock, r.token).status = 200
      /\ r.db.sessions[r.token].user_id = sessions[token].user_id
      /\ r.db.sessions[r.token].wallet_address = req.walletAddress

\* the sessions of the user of token in database db that pass GET /verify
ValidTokens(db, token) ==
  {k \in DOMAIN db.sessions :
     /\ db.sessions[k].user_id = db.sessions[token].user_id
     /\ getVerify(db, clock, k).status = 200}

\* C38 as stated: a successful PUT /wallet deletes and alters no session, the
\* tokens issued before stay valid with their wallet_address, and afterwards
\* the user holds two valid tokens whose wallet_address differ.
C38_TwoSnapshots ==
  \A token \in DOMAIN sessions : \A req \in Updates(token) :
    LET r == putWallet(Db, clock, token, req)
    IN  /\ SessionsSurvive(token, req)
        /\ \E a \in ValidTokens(r.db, token), b \in ValidTokens(r.db, token) :
             r.db.sessions[a].wallet_address # r.db.sessions[b].wallet_address

\* C38: a successful PUT /wallet deletes and alters no session, the tokens
\* issued before stay valid with their wallet_address, and afterwards the
\* caller holds two valid tokens, the one used and the new one; their
\* wallet_address differ if the one used carries the address the user had
\* stored when the update was made.
C38_SessionsSurviveUpdate ==
  \A token \in DOMAIN sessions : \A req \in Updates(token) :
    LET r == putWallet(Db, clock, token, req)
        user == User_findById(Db, sessions[token].user_id)
    IN  /\ SessionsSurvive(token, req)
        /\ {token, r.token} \subseteq ValidTokens(r.db, token)
        /\ toLowerCase(sessions[token].wallet_address) = toLowerCase(user.wallet_address) =>
             toLowerCase(r.db.sessions[token].wallet_address)
               # toLowerCase(r.db.sessions[r.token].wallet_address)

\* the admin changed the wallet: the token of the login and the token the
\* update returned are both valid and carry different addresses
C38_Witness ==
  /\ DOMAIN sessions = {1, 2}
  /\ sessions[1].user_id = sessions[2].user_id
  /\ getVerify(Db, clock, 1).status = 200
  /\ getVerify(Db, clock, 2).status = 200
  /\ toLowerCase(sessions[1].wallet_address) # toLowerCase(sessions[2].wallet_address)
  /\ toLowerCase(users[sessions[2].user_id].wallet_address)
       = toLowerCase(sessions[2].wallet_address)
  /\ Updates(2) # {}

-----------------------------------------------------------------------------
(* The backend service: registrations that interleave *)

\* two requests share a username, an email or, without regard to case, a
\* wallet address
Shares(a, b) ==
  \/ a.username = b.username
  \/ a.email = b.email
  \/ toLowerCase(a.walletAddress) = toLowerCase(b.walletAddress)

\* the two steps run without a break are the handler
RegisterInSteps ==
  \A req \in ConcurrentRegisters \cup RegisterInputs :
    postRegister(Db, req) =
      IF postRegister_Checks(Db, req) = NoRow THEN postRegister_Insert(Db, req)
      ELSE postRegister_Checks(Db, req)

\* the rows of the users table a request could have created
RowsOf(req) ==
  {i \in DOMAIN users :
     \/ users[i].username = req.username
     \/ users[i].email = req.email
     \/ toLowerCase(users[i].wallet_address) = toLowerCase(req.walletAddress)}

\* C39: two POST /register requests that share a username, an email or a
\* wallet address (compared without case) and have both passed the checks
\* before either inserted: they never both create a row; each is answered 201
\* or 400, never 500; a 201 adds one row and a 400 none; and when no row
\* inserted since stands in the way of the one resumed first, that one is
\* answered 201 and the other 400.
C39_OneRowOneRefusal ==
  /\ \A i \in DOMAIN pending, j \in DOMAIN pending :
       i # j /\ Shares(pending[i], pending[j]) =>
         LET first == postRegister_Insert(Db, pending[i])
             second == postRegister_Insert(first.db, pending[j])
         IN  /\ {first.status, second.status} \subseteq {201, 400}
             /\ ~(first.status = 201 /\ second.status = 201)
             /\ Len(first.db.users) = Len(users) + (IF first.status = 201 THEN 1 ELSE 0)
             /\ Len(second.db.users)
                  = Len(first.db.users) + (IF second.status = 201 THEN 1 ELSE 0)
             /\ postRegister_Checks(Db, pending[i]) = NoRow =>
                  first.status = 201 /\ second.status = 400 /\ second.db = first.db
  /\ \A i \in DOMAIN answered, j \in DOMAIN answered :
       i < j /\ Shares(answered[i].req, answered[j].req) =>
         ~(answered[i].status = 201 /\ answered[j].status = 201)
  /\ \A i \in DOMAIN answered : answered[i].status \in {201, 400}
  /\ Len(users) = Len(defaultAccounts)
                    + Cardinality({i \in DOMAIN answered : answered[i].status = 201})
  /\ \A a \in DOMAIN users, b \in DOMAIN users :
       a # b /\ a > Len(defaultAccounts) /\ b > Len(defaultAccounts) =>
         /\ users[a].username # users[b].username
         /\ users[a].email # users[b].email
         /\ toLowerCase(users[a].wallet_address) # toLowerCase(users[b].wallet_address)

\* two registrations for the same username with different e-mails and wallets
\* were both waiting for User.create; the first resumed was answered 201, the
\* second 400, and the table has one row more
C39_Witness ==
  /\ Len(answered) = 2
  /\ pending = <<>>
  /\ answered[1].req.username = answered[2].req.username
  /\ answered[1].req.email # answered[2].req.email
  /\ toLowerCase(answered[1].req.walletAddress) # toLowerCase(answered[2].req.walletAddress)
  /\ answered[1].status = 201
  /\ answered[2].status = 400
  /\ Len(users) = 4

-----------------------------------------------------------------------------
(* The backend service: the sweep of expired sessions *)

\* the instants from the clock's on
LaterInstants ==
  {t \in {Instant(d, s) : d \in clock.day .. MaxDay + 2, s \in 0 .. DayLen - 1} :
     ~Before(t, clock)}

\* the sessions Session.deleteExpired removes now
Swept == DOMAIN sessions \ DOMAIN Session_deleteExpired(Db, clock).sessions

\* C40: Session.deleteExpired run at any moment removes only sessions that
\* Session.findByToken already refuses, removes none that is still valid, and
\* changes the result of Session.findByToken for no token, now or later; GET
\* /verify answers every token as it did.
C40_SweepUnobservable ==
  LET swept == Session_deleteExpired(Db, clock)
  IN  /\ \A k \in Swept :
           /\ Session_findByToken(Db, clock, k) = NoRow
           /\ Before(InstantOf(sessions[k].expires_at), clock)
      /\ \A k \in DOMAIN sessions :
           Session_findByToken(Db, clock, k) # NoRow =>
             k \in DOMAIN swept.sessions /\ swept.sessions[k] = sessions[k]
      /\ swept.users = users /\ swept.nextToken = nextToken
      /\ \A token \in TokenInputs, t \in LaterInstants :
           /\ Session_findByToken(swept, t, token) = Session_findByToken(Db, t, token)
           /\ getVerify(swept, t, token).status = getVerify(Db, t, token).status

\* the sweep has a session to remove and another to keep whose expiry instant
\* has passed although its text still compares greater than datetime('now')
C40_Witness ==
  /\ Swept # {}
  /\ \E k \in DOMAIN sessions \ Swept :
       /\ ~Before(clock, InstantOf(sessions[k].expires_at))
       /\ Session_findByToken(Db, clock, k) # NoRow

====
